---- MODULE Spec2Model ----
(***************************************************************************)
(* The Celestial Harmonograph: the multi-band beat detector (AudioAnalyzer *)
(* of js/HarmonographRenderer.js) driven by the sketch of js/Comet.js      *)
(* (setup, the beat-sensitivity and pulse-strength sliders,                *)
(* startMicrophone / handleFileUpload and the draw loop).                  *)
(*                                                                         *)
(* Numbers.  The program computes in IEEE doubles; the model computes in   *)
(* fixed point with four decimals: the integer n stands for n / ONE, and   *)
(* products and quotients are rounded down to the next multiple of 1/ONE.  *)
(* Times are integers, in milliseconds, as millis() returns them.          *)
(***************************************************************************)
EXTENDS Integers, Sequences, FiniteSets, TLC

\* ------------------------------------------------------------------------
\* Fixed point
\* ------------------------------------------------------------------------
ONE == 100 * 100

Mul(a, b) == (a * b) \div ONE

Div(a, b) == (a * ONE) \div b

\* ------------------------------------------------------------------------
\* p5.js helpers used by the analyzer
\* ------------------------------------------------------------------------
min(a, b) == IF a < b THEN a ELSE b

max(a, b) == IF a > b THEN a ELSE b

abs(a) == IF a < 0 THEN -a ELSE a

\* p5 map(): (n - start1) / (stop1 - start1) * (stop2 - start2) + start2
map(n, start1, stop1, start2, stop2) ==
    Mul(Div(n - start1, stop1 - start1), stop2 - start2) + start2

\* p5 constrain(): max(min(n, high), low)
constrain(n, low, high) == max(min(n, high), low)

\* p5 lerp(): amt * (stop - start) + start
lerp(start, stop, amt) == Mul(amt, stop - start) + start

RECURSIVE reduceSum(_)
\* history.reduce((a, b) => a + b, 0)
reduceSum(history) ==
    IF history = << >> THEN 0 ELSE Head(history) + reduceSum(Tail(history))

\* history.push(x) without the shift
pushShift_NoShift(history, x) == Append(history, x)

\* history.push(x); history.shift()
pushShift(history, x) == Tail(Append(history, x))

\* ------------------------------------------------------------------------
\* Bounds of the model
\* ------------------------------------------------------------------------
\* new AudioAnalyzer(historyLength): the sketch passes 60; the model keeps a
\* short window so that every window content is explored.
HistoryLength == 2

\* draw() is called at most MaxFrames times.
MaxFrames == 2

\* Band energies fft.getEnergy(band) / 255 of one frame
Energies == {0, 5000, ONE}

\* Milliseconds between two draw() calls
FrameGaps == {100, 250}

\* Positions the sliders are moved to (beatSensitivitySlider 0..100,
\* pulseStrengthSlider 0..20)
BeatSensitivityValues == {0}

PulseStrengthValues == {20}

\* The readings of one frame.  The three bands the beat detector reads take
\* every combination of levels; the two readings it does not use follow from
\* them: highMid (2600-5200 Hz) lies between mid and treble and reads their
\* mean, and the level of the signal reads a sixth of the sum of the bands.
Spectra ==
    { [bass |-> b, mid |-> m, treble |-> t,
       highMid |-> (m + t) \div 2, volume |-> (b + m + t) \div 6] :
      b \in Energies, m \in Energies, t \in Energies }

\* ------------------------------------------------------------------------
\* Constants of the AudioAnalyzer constructor
\* ------------------------------------------------------------------------
bassCooldown == 200

bassDecay == 9500

bassSensitivity == 15000

midCooldown == 150

midDecay == 9300

midSensitivity == 14000

trebleCooldown == 100

trebleDecay == 9000

trebleSensitivity == 13000

bassPulseDecay == 9200

midPulseDecay == 9000

treblePulseDecay == 8500

pulseDecay == 9200

\* ------------------------------------------------------------------------
\* State
\* ------------------------------------------------------------------------
VARIABLES
    audioAnalyzer,   \* the fields of the AudioAnalyzer object
    Settings,        \* Settings.beatSensitivity, Settings.pulseStrength
    audioStarted,    \* sketch global
    now,             \* millis() at the last draw()
    frameCount,      \* p5 frameCount: the number of draw() calls so far
    lastFrame,       \* the locals of the last analyze() call that ran
    probe,           \* one band's frame applied to chosen arguments (SpecDetect);
                     \* the smoothed readings and the NaN fields (SpecNaN);
                     \* the pulse of a band (SpecPulse); a body, an attractor
                     \* and the acceleration computed (SpecAccel); smoothedBass,
                     \* the spectrum and the calls of the frame (SpecFrame);
                     \* the scale of the last setTimeScale() (SpecScale)
    twin,            \* a second AudioAnalyzer, run on other spectra (SpecPair)
    sharedBand,      \* the band on which the two analyzers hear the same
    gravitySystem,   \* the GravitySystem of systems[0]
    system,          \* systems[0]: physicsMode and the Planet objects' links
    lastCall         \* the last call made on the gravity system, with its locals

vars ==
    <<audioAnalyzer, Settings, audioStarted, now, frameCount, lastFrame, probe,
      twin, sharedBand, gravitySystem, system, lastCall>>

gravityVars == <<gravitySystem, system, lastCall>>

zeros(n) == [i \in 1..n |-> 0]

\* new AudioAnalyzer(historyLength)
AudioAnalyzer(historyLength) ==
    [ fft |-> FALSE,
      historyLength |-> historyLength,
      volumeHistory |-> zeros(historyLength),
      bassHistory |-> zeros(historyLength),
      midHistory |-> zeros(historyLength),
      trebleHistory |-> zeros(historyLength),
      volume |-> 0, avgVolume |-> 0,
      bass |-> 0, mid |-> 0, highMid |-> 0, treble |-> 0,
      bassBeat |-> FALSE, bassBeatIntensity |-> 0, bassThreshold |-> 4000,
      bassLastBeatTime |-> 0, bassCutoff |-> 3000,
      midBeat |-> FALSE, midBeatIntensity |-> 0, midThreshold |-> 3500,
      midLastBeatTime |-> 0, midCutoff |-> 2500,
      trebleBeat |-> FALSE, trebleBeatIntensity |-> 0, trebleThreshold |-> 3000,
      trebleLastBeatTime |-> 0, trebleCutoff |-> 2000,
      isBeat |-> FALSE, beatIntensity |-> 0, beatThreshold |-> 4000,
      lastBeatTime |-> 0,
      bassPulseAmount |-> ONE, bassPulseStrength |-> 800,
      midPulseAmount |-> ONE, midPulseStrength |-> 500,
      treblePulseAmount |-> ONE, treblePulseStrength |-> 300,
      pulseAmount |-> ONE, pulseStrength |-> 800,
      isTense |-> FALSE, isHighIntensity |-> FALSE ]

\* ------------------------------------------------------------------------
\* AudioAnalyzer.detectBeat
\* ------------------------------------------------------------------------
\* const avgEnergy = history.reduce(...) / history.length
avgEnergy(history) == reduceSum(history) \div Len(history)

\* The dynamic threshold without its cap
dynamicThreshold_NoCap(history, sensitivity) ==
    LET adaptiveMultiplier ==
            map(avgEnergy(history), 0, ONE, sensitivity, Mul(sensitivity, 8000))
    IN  Mul(avgEnergy(history), adaptiveMultiplier)

\* const dynamicThreshold = min(avgEnergy * adaptiveMultiplier, 0.98)
dynamicThreshold(history, sensitivity) ==
    LET adaptiveMultiplier ==
            map(avgEnergy(history), 0, ONE, sensitivity, Mul(sensitivity, 8000))
    IN  min(Mul(avgEnergy(history), adaptiveMultiplier), 9800)

\* The rising edge taken against the sample just pushed (history.length - 1)
isRising_AgainstItself(energy, history) ==
    IF Len(history) >= 1 THEN energy > history[Len(history)] ELSE FALSE

\* The rising edge with >= in place of >
isRising_NonStrict(energy, history) ==
    IF Len(history) >= 2 THEN energy >= history[Len(history) - 1] ELSE FALSE

\* const isRising = energy > history[history.length - 2]
\* (an index outside the array reads undefined, and x > undefined is false)
isRising(energy, history) ==
    IF Len(history) >= 2 THEN energy > history[Len(history) - 1] ELSE FALSE

\* The intensity mapped onto [0, 1] and not constrained
beatIntensityOf_Unclamped(energy, threshold) ==
    map(energy, threshold, ONE, 0, ONE)

\* intensity = constrain(map(energy, threshold, 1, 0.5, 1), 0.5, 1)
beatIntensityOf(energy, threshold) ==
    constrain(map(energy, threshold, ONE, 5000, ONE), 5000, ONE)

\* detectBeat with the cooldown test left out of the beat condition
detectBeat_NoCooldown(energy, history, threshold, lastBeatTime, cooldown, cutoff, decay, sensitivity, currentTime) ==
    LET dyn == dynamicThreshold(history, sensitivity)
        isBeat == /\ energy > threshold
                  /\ energy > dyn
                  /\ isRising(energy, history)
        intensity == IF isBeat THEN beatIntensityOf(energy, threshold) ELSE 0
        reset == IF isBeat THEN Mul(energy, 9500) ELSE threshold
    IN  [ isBeat |-> isBeat,
          intensity |-> intensity,
          threshold |-> max(Mul(reset, decay), cutoff),
          dynamicThreshold |-> dyn,
          avgEnergy |-> avgEnergy(history) ]

\* detectBeat with the adaptive threshold left out of the beat condition
detectBeat_NoDynamic(energy, history, threshold, lastBeatTime, cooldown, cutoff, decay, sensitivity, currentTime) ==
    LET dyn == dynamicThreshold(history, sensitivity)
        timeSinceLast == currentTime - lastBeatTime
        isBeat == /\ energy > threshold
                  /\ isRising(energy, history)
                  /\ timeSinceLast > cooldown
        intensity == IF isBeat THEN beatIntensityOf(energy, threshold) ELSE 0
        reset == IF isBeat THEN Mul(energy, 9500) ELSE threshold
    IN  [ isBeat |-> isBeat,
          intensity |-> intensity,
          threshold |-> max(Mul(reset, decay), cutoff),
          dynamicThreshold |-> dyn,
          avgEnergy |-> avgEnergy(history) ]

detectBeat(energy, history, threshold, lastBeatTime, cooldown, cutoff, decay, sensitivity, currentTime) ==
    LET dyn == dynamicThreshold(history, sensitivity)
        timeSinceLast == currentTime - lastBeatTime
        isBeat == /\ energy > threshold
                  /\ energy > dyn
                  /\ isRising(energy, history)
                  /\ timeSinceLast > cooldown
        intensity == IF isBeat THEN beatIntensityOf(energy, threshold) ELSE 0
        reset == IF isBeat THEN Mul(energy, 9500) ELSE threshold
    IN  [ isBeat |-> isBeat,
          intensity |-> intensity,
          threshold |-> max(Mul(reset, decay), cutoff),
          dynamicThreshold |-> dyn,
          avgEnergy |-> avgEnergy(history) ]

\* ------------------------------------------------------------------------
\* AudioAnalyzer.analyze
\* ------------------------------------------------------------------------
\* The pulse itself multiplied by the decay rate
decayPulse_Multiply(amount, decay) ==
    LET p == Mul(amount, decay)
    IN  IF abs(p - ONE) < 10 THEN ONE ELSE p

\* The pulse held where it is, and snapped to 1.0 within 0.001
decayPulse_Hold(amount, decay) ==
    IF abs(amount - ONE) < 10 THEN ONE ELSE amount

\* lerp(pulseAmount, 1.0, 1 - decay), snapped to 1.0 within 0.001
decayPulse(amount, decay) ==
    LET p == lerp(amount, ONE, ONE - decay)
    IN  IF abs(p - ONE) < 10 THEN ONE ELSE p

\* The readings of one frame and the band histories
analyzeSpectrum(a, s) ==
    LET volumeHistory == pushShift(a.volumeHistory, s.volume)
    IN  [a EXCEPT
            !.volume = s.volume,
            !.bass = s.bass, !.mid = s.mid,
            !.highMid = s.highMid, !.treble = s.treble,
            !.volumeHistory = volumeHistory,
            !.avgVolume = reduceSum(volumeHistory) \div a.historyLength,
            !.bassHistory = pushShift(a.bassHistory, s.bass),
            !.midHistory = pushShift(a.midHistory, s.mid),
            !.trebleHistory = pushShift(a.trebleHistory, s.treble)]

bassResultOf(a, currentTime) ==
    detectBeat(a.bass, a.bassHistory, a.bassThreshold, a.bassLastBeatTime,
               bassCooldown, a.bassCutoff, bassDecay, bassSensitivity, currentTime)

\* The mid call handed the bass history
midResultOf_BassHistory(a, currentTime) ==
    detectBeat(a.mid, a.bassHistory, a.midThreshold, a.midLastBeatTime,
               midCooldown, a.midCutoff, midDecay, midSensitivity, currentTime)

midResultOf(a, currentTime) ==
    detectBeat(a.mid, a.midHistory, a.midThreshold, a.midLastBeatTime,
               midCooldown, a.midCutoff, midDecay, midSensitivity, currentTime)

trebleResultOf(a, currentTime) ==
    detectBeat(a.treble, a.trebleHistory, a.trebleThreshold, a.trebleLastBeatTime,
               trebleCooldown, a.trebleCutoff, trebleDecay, trebleSensitivity,
               currentTime)

\* analyzeBeats() with a combined beat that any of the three bands sets
analyzeBeats_AnyBand(a, currentTime) ==
    LET bassResult == bassResultOf(a, currentTime)
        midResult == midResultOf(a, currentTime)
        trebleResult == trebleResultOf(a, currentTime)
    IN  [a EXCEPT
            !.bassBeat = bassResult.isBeat,
            !.bassBeatIntensity = bassResult.intensity,
            !.bassThreshold = bassResult.threshold,
            !.bassLastBeatTime =
                IF bassResult.isBeat THEN currentTime ELSE @,
            !.bassPulseAmount =
                IF bassResult.isBeat
                THEN ONE + Mul(a.bassPulseStrength, bassResult.intensity) ELSE @,
            !.midBeat = midResult.isBeat,
            !.midBeatIntensity = midResult.intensity,
            !.midThreshold = midResult.threshold,
            !.midLastBeatTime =
                IF midResult.isBeat THEN currentTime ELSE @,
            !.midPulseAmount =
                IF midResult.isBeat
                THEN ONE + Mul(a.midPulseStrength, midResult.intensity) ELSE @,
            !.trebleBeat = trebleResult.isBeat,
            !.trebleBeatIntensity = trebleResult.intensity,
            !.trebleThreshold = trebleResult.threshold,
            !.trebleLastBeatTime =
                IF trebleResult.isBeat THEN currentTime ELSE @,
            !.treblePulseAmount =
                IF trebleResult.isBeat
                THEN ONE + Mul(a.treblePulseStrength, trebleResult.intensity) ELSE @,
            !.isBeat = bassResult.isBeat \/ midResult.isBeat \/ trebleResult.isBeat,
            !.beatIntensity = max(bassResult.intensity,
                                  max(midResult.intensity, trebleResult.intensity)),
            !.beatThreshold = bassResult.threshold,
            !.lastBeatTime =
                IF bassResult.isBeat THEN currentTime ELSE @,
            !.pulseAmount =
                IF bassResult.isBeat
                THEN ONE + Mul(a.pulseStrength, bassResult.intensity) ELSE @]

\* Multi-band beat detection and the legacy combined beat
analyzeBeats(a, currentTime) ==
    LET bassResult == bassResultOf(a, currentTime)
        midResult == midResultOf(a, currentTime)
        trebleResult == trebleResultOf(a, currentTime)
    IN  [a EXCEPT
            !.bassBeat = bassResult.isBeat,
            !.bassBeatIntensity = bassResult.intensity,
            !.bassThreshold = bassResult.threshold,
            !.bassLastBeatTime =
                IF bassResult.isBeat THEN currentTime ELSE @,
            !.bassPulseAmount =
                IF bassResult.isBeat
                THEN ONE + Mul(a.bassPulseStrength, bassResult.intensity) ELSE @,
            !.midBeat = midResult.isBeat,
            !.midBeatIntensity = midResult.intensity,
            !.midThreshold = midResult.threshold,
            !.midLastBeatTime =
                IF midResult.isBeat THEN currentTime ELSE @,
            !.midPulseAmount =
                IF midResult.isBeat
                THEN ONE + Mul(a.midPulseStrength, midResult.intensity) ELSE @,
            !.trebleBeat = trebleResult.isBeat,
            !.trebleBeatIntensity = trebleResult.intensity,
            !.trebleThreshold = trebleResult.threshold,
            !.trebleLastBeatTime =
                IF trebleResult.isBeat THEN currentTime ELSE @,
            !.treblePulseAmount =
                IF trebleResult.isBeat
                THEN ONE + Mul(a.treblePulseStrength, trebleResult.intensity) ELSE @,
            !.isBeat = bassResult.isBeat,
            !.beatIntensity = bassResult.intensity,
            !.beatThreshold = bassResult.threshold,
            !.lastBeatTime =
                IF bassResult.isBeat THEN currentTime ELSE @,
            !.pulseAmount =
                IF bassResult.isBeat
                THEN ONE + Mul(a.pulseStrength, bassResult.intensity) ELSE @]

\* Decay pulses
analyzePulses(a) ==
    [a EXCEPT
        !.bassPulseAmount = decayPulse(@, bassPulseDecay),
        !.midPulseAmount = decayPulse(@, midPulseDecay),
        !.treblePulseAmount = decayPulse(@, treblePulseDecay),
        !.pulseAmount = decayPulse(@, pulseDecay)]

\* Tension detection
analyzeTension(a) ==
    [a EXCEPT
        !.isTense = \/ (a.volume > Mul(a.avgVolume, 12000) /\ a.volume > 200)
                    \/ a.bassBeat \/ a.midBeat \/ a.trebleBeat,
        !.isHighIntensity = (a.treble > 2000 \/ a.highMid > 5000)]

analyze(a, s, currentTime) ==
    IF ~a.fft THEN a
    ELSE analyzeTension(analyzePulses(analyzeBeats(analyzeSpectrum(a, s), currentTime)))

\* The locals bassResult, midResult, trebleResult and currentTime of analyze()
analyzeLocals(a, s, currentTime) ==
    LET b == analyzeSpectrum(a, s)
    IN  [ currentTime |-> currentTime,
          bassResult |-> bassResultOf(b, currentTime),
          midResult |-> midResultOf(b, currentTime),
          trebleResult |-> trebleResultOf(b, currentTime) ]

noResult ==
    [isBeat |-> FALSE, intensity |-> 0, threshold |-> 0,
     dynamicThreshold |-> 0, avgEnergy |-> 0]

noFrame ==
    [currentTime |-> 0, bassResult |-> noResult, midResult |-> noResult,
     trebleResult |-> noResult]

noProbe ==
    [ energy |-> 0, history |-> << >>, threshold |-> 0, lastBeatTime |-> 0,
      cooldown |-> 0, cutoff |-> 0, decay |-> 0, sensitivity |-> 0,
      currentTime |-> 0, pushed |-> << >>, result |-> noResult, done |-> FALSE ]

\* ------------------------------------------------------------------------
\* GravitySystem (GravitySystem.js).  Lengths are in tenths of a pixel,
\* velocities in tenths of a pixel per second, times in 1/10000 s, lives in
\* halves, multipliers and trigonometric values in units of 1/ONE.
\* ------------------------------------------------------------------------
\* Tenths of a pixel per pixel
PX == ONE \div 1000

\* The canvas: width and height of the sketch window, in pixels
Canvas == [width |-> 400, height |-> 400]

RECURSIVE sqrtFrom(_, _)
sqrtFrom(n, x) ==
    LET y == (x + n \div x) \div 2
    IN  IF y >= x THEN x ELSE sqrtFrom(n, y)

\* sqrt(), rounded down
sqrt(n) == IF n <= 0 THEN 0 ELSE sqrtFrom(n, n)

\* cos() and sin() of k * PI / 4
cos(k) == <<ONE, 7071, 0, -7071, -ONE, -7071, 0, 7071>>[(k % 8) + 1]

sin(k) == cos(k + 6)

\* new CelestialBody(config)
CelestialBody(config) ==
    [ name |-> config.name,
      mass |-> config.mass,
      x |-> config.x,
      y |-> config.y,
      vx |-> config.vx,
      vy |-> config.vy,
      isFixed |-> config.isFixed,
      isComet |-> config.isComet,
      trail |-> << >>,
      maxTrailLength |-> config.maxTrailLength,
      life |-> config.life ]

\* planetConfigs of createPlanets(): semiMajorAxis and eccentricity in units
\* of 1/ONE, startAngle in units of PI / 4
planetConfigs ==
    << [name |-> "A", mass |-> 50, semiMajorAxis |-> 2000, eccentricity |-> 1000,
        startAngle |-> 0],
       [name |-> "B", mass |-> 80, semiMajorAxis |-> 3500, eccentricity |-> 500,
        startAngle |-> 1],
       [name |-> "C", mass |-> 100, semiMajorAxis |-> 5000, eccentricity |-> 800,
        startAngle |-> 2],
       [name |-> "D", mass |-> 60, semiMajorAxis |-> 7000, eccentricity |-> 1200,
        startAngle |-> 3] >>

\* new GravitySystem()
GravitySystem ==
    [ G |-> 1000,
      dt |-> 160,
      timeScale |-> ONE,
      sun |-> [name |-> "null"],
      planets |-> << >>,
      comets |-> << >>,
      mode |-> "scientific",
      audioModulation |-> [bassMultiplier |-> ONE, midMultiplier |-> ONE,
                           trebleMultiplier |-> ONE, beatPulse |-> 0],
      softeningLength |-> 10 * PX,
      maxTrailLength |-> 100,
      centerX |-> 0,
      centerY |-> 0,
      screenScale |-> 0 ]

\* createOrbitalBody(config): the body at perihelion, with the vis-viva speed
\* v = sqrt(GM (2 / r - 1 / a)) perpendicular to the radius
createOrbitalBody(g, config) ==
    LET a == Mul(config.semiMajorAxis, g.screenScale)
        e == config.eccentricity
        rPerihelion == Mul(a, ONE - e)
        angle == config.startAngle
        GM == g.G * g.sun.mass
        vPerihelion ==
            sqrt((GM \div ((rPerihelion * a) \div (PX * PX)))
                    * (2 * a - rPerihelion) * PX)
        vAngle == angle + 2
    IN  CelestialBody(
          [ name |-> config.name, mass |-> config.mass,
            x |-> g.centerX + Mul(rPerihelion, cos(angle)),
            y |-> g.centerY + Mul(rPerihelion, sin(angle)),
            vx |-> Mul(vPerihelion, cos(vAngle)),
            vy |-> Mul(vPerihelion, sin(vAngle)),
            isFixed |-> FALSE, isComet |-> FALSE,
            maxTrailLength |-> 100, life |-> 2 * 255 ])

\* createPlanets(): one body per configuration, pushed onto this.planets
createPlanets(g) ==
    [g EXCEPT !.planets =
        g.planets \o [i \in 1..Len(planetConfigs) |->
                         createOrbitalBody(g, planetConfigs[i])]]

\* initialize(centerX, centerY, screenScale)
initialize(g, centerX, centerY, screenScale) ==
    LET placed == [g EXCEPT
            !.centerX = centerX,
            !.centerY = centerY,
            !.screenScale = screenScale,
            !.sun = CelestialBody(
                      [ name |-> "Sun", mass |-> 10000, x |-> centerX,
                        y |-> centerY, vx |-> 0, vy |-> 0, isFixed |-> TRUE,
                        isComet |-> FALSE, maxTrailLength |-> 100,
                        life |-> 2 * 255 ]),
            !.planets = << >>]
    IN  [createPlanets(placed) EXCEPT !.comets = << >>]

\* What spawnComet() draws with random(): the edge, the place along the edge
\* (1/ONE of its length), the offset of the heading (units of PI / 4), the
\* speed, the mass and the trail length
spawnComet(g, r) ==
    LET w == Canvas.width * PX
        h == Canvas.height * PX
        x == CASE r.edge = 0 -> Mul(w, r.along)
               [] r.edge = 1 -> w + 50 * PX
               [] r.edge = 2 -> Mul(w, r.along)
               [] OTHER -> -50 * PX
        y == CASE r.edge = 0 -> -50 * PX
               [] r.edge = 1 -> Mul(h, r.along)
               [] r.edge = 2 -> h + 50 * PX
               [] OTHER -> Mul(h, r.along)
        dx == g.centerX - x
        dy == g.centerY - y
        dist == sqrt(dx * dx + dy * dy)
        \* cos and sin of angleToCenter + offset
        cosAngle == Mul(Div(dx, dist), cos(r.offset)) - Mul(Div(dy, dist), sin(r.offset))
        sinAngle == Mul(Div(dy, dist), cos(r.offset)) + Mul(Div(dx, dist), sin(r.offset))
        comet == CelestialBody(
                   [ name |-> "Comet", mass |-> r.mass, x |-> x, y |-> y,
                     vx |-> Mul(r.speed, cosAngle), vy |-> Mul(r.speed, sinAngle),
                     isFixed |-> FALSE, isComet |-> TRUE,
                     maxTrailLength |-> r.maxTrailLength, life |-> 2 * 255 ])
    IN  [g EXCEPT !.comets = Append(g.comets, comet)]

\* gravitationalAcceleration() scaling the sun's GM whatever the mode is
gravitationalAcceleration_AnyMode(g, body, attractor) ==
    LET dx == attractor.x - body.x
        dy == attractor.y - body.y
        distSq == dx * dx + dy * dy + g.softeningLength * g.softeningLength
        dist == sqrt(distSq)
        GM == IF attractor.name = "Sun"
              THEN ((g.G * attractor.mass) \div ONE) * g.audioModulation.bassMultiplier
              ELSE g.G * attractor.mass
        aMag == (GM * PX) \div (distSq \div (PX * PX))
    IN  [ax |-> (aMag * dx) \div dist, ay |-> (aMag * dy) \div dist]

\* gravitationalAcceleration() softened by a tenth of softeningLength
gravitationalAcceleration_ThinSoftening(g, body, attractor) ==
    LET dx == attractor.x - body.x
        dy == attractor.y - body.y
        distSq == dx * dx + dy * dy
                    + (g.softeningLength \div 10) * (g.softeningLength \div 10)
        dist == sqrt(distSq)
        GM == IF g.mode = "reactive" /\ attractor.name = "Sun"
              THEN ((g.G * attractor.mass) \div ONE) * g.audioModulation.bassMultiplier
              ELSE g.G * attractor.mass
        aMag == (GM * PX) \div (distSq \div (PX * PX))
    IN  [ax |-> (aMag * dx) \div dist, ay |-> (aMag * dy) \div dist]

\* gravitationalAcceleration(body, attractor): a = GM / r^2 toward the
\* attractor, softened; the sun's GM is scaled by bassMultiplier in reactive
\* mode
gravitationalAcceleration(g, body, attractor) ==
    LET dx == attractor.x - body.x
        dy == attractor.y - body.y
        distSq == dx * dx + dy * dy + g.softeningLength * g.softeningLength
        dist == sqrt(distSq)
        GM == IF g.mode = "reactive" /\ attractor.name = "Sun"
              THEN ((g.G * attractor.mass) \div ONE) * g.audioModulation.bassMultiplier
              ELSE g.G * attractor.mass
        aMag == (GM * PX) \div (distSq \div (PX * PX))
    IN  [ax |-> (aMag * dx) \div dist, ay |-> (aMag * dy) \div dist]

RECURSIVE sumAcc(_)
sumAcc(accs) ==
    IF accs = << >> THEN [ax |-> 0, ay |-> 0]
    ELSE LET rest == sumAcc(Tail(accs))
         IN  [ax |-> Head(accs).ax + rest.ax, ay |-> Head(accs).ay + rest.ay]

\* The beat pulse term of calculateAcceleration(): toward the center, of
\* strength beatPulse * 50 / (dist + 50).  At dist = 0 the code divides 0 by
\* 0 and the term is NaN: beatPulseIsNaN tells, and the numbers kept here for
\* that case have no meaning.
beatPulseAcceleration(g, body) ==
    LET dx == g.centerX - body.x
        dy == g.centerY - body.y
        dist == sqrt(dx * dx + dy * dy)
        pulseStrength == (g.audioModulation.beatPulse * 50 * PX * PX) \div (dist + 50 * PX)
    IN  IF dist = 0 THEN [ax |-> 0, ay |-> 0]
        ELSE [ax |-> ((dx * pulseStrength) \div dist) \div ONE,
              ay |-> ((dy * pulseStrength) \div dist) \div ONE]

\* calculateAcceleration() with the planets pulling every body, not only the
\* comets
calculateAcceleration_PlanetsPullAll(g, body) ==
    LET sunAcc == gravitationalAcceleration(g, body, g.sun)
        planetAcc == sumAcc([i \in 1..Len(g.planets) |->
                                gravitationalAcceleration(g, body, g.planets[i])])
        pulseAcc == IF g.mode = "reactive" /\ g.audioModulation.beatPulse > 0
                    THEN beatPulseAcceleration(g, body)
                    ELSE [ax |-> 0, ay |-> 0]
    IN  [ax |-> sunAcc.ax + planetAcc.ax + pulseAcc.ax,
         ay |-> sunAcc.ay + planetAcc.ay + pulseAcc.ay]

\* calculateAcceleration(body)
calculateAcceleration(g, body) ==
    LET sunAcc == gravitationalAcceleration(g, body, g.sun)
        planetAcc == IF body.isComet
                     THEN sumAcc([i \in 1..Len(g.planets) |->
                                     gravitationalAcceleration(g, body, g.planets[i])])
                     ELSE [ax |-> 0, ay |-> 0]
        pulseAcc == IF g.mode = "reactive" /\ g.audioModulation.beatPulse > 0
                    THEN beatPulseAcceleration(g, body)
                    ELSE [ax |-> 0, ay |-> 0]
    IN  [ax |-> sunAcc.ax + planetAcc.ax + pulseAcc.ax,
         ay |-> sunAcc.ay + planetAcc.ay + pulseAcc.ay]

RECURSIVE trimTrail_NewestFirst(_, _)
\* The trail cut down from its newest end
trimTrail_NewestFirst(trail, maxLength) ==
    IF Len(trail) > maxLength
    THEN trimTrail_NewestFirst(SubSeq(trail, 1, Len(trail) - 1), maxLength)
    ELSE trail

RECURSIVE trimTrail(_, _)
\* while (body.trail.length > (body.maxTrailLength || this.maxTrailLength))
\* body.trail.shift()
trimTrail(trail, maxLength) ==
    IF Len(trail) > maxLength THEN trimTrail(Tail(trail), maxLength) ELSE trail

\* updateBody() that advances the velocity with the first acceleration alone,
\* without the one at the new position
updateBody_StaleAcceleration(g, body, dt) ==
    IF body.isFixed THEN body
    ELSE
      LET trail == trimTrail(Append(body.trail, [x |-> body.x, y |-> body.y]),
                             body.maxTrailLength)
          acc == calculateAcceleration(g, body)
      IN  [body EXCEPT
              !.trail = trail,
              !.x = body.x + (body.vx * dt) \div ONE
                      + (((acc.ax * dt) \div ONE) * dt) \div (2 * ONE),
              !.y = body.y + (body.vy * dt) \div ONE
                      + (((acc.ay * dt) \div ONE) * dt) \div (2 * ONE),
              !.vx = body.vx + ((acc.ax + acc.ax) * dt) \div (2 * ONE),
              !.vy = body.vy + ((acc.ay + acc.ay) * dt) \div (2 * ONE)]

\* updateBody(body, dt): velocity Verlet; a fixed body is left alone
updateBody(g, body, dt) ==
    IF body.isFixed THEN body
    ELSE
      LET trail == trimTrail(Append(body.trail, [x |-> body.x, y |-> body.y]),
                             body.maxTrailLength)
          acc == calculateAcceleration(g, body)
          moved == [body EXCEPT
                      !.trail = trail,
                      !.x = body.x + (body.vx * dt) \div ONE
                              + (((acc.ax * dt) \div ONE) * dt) \div (2 * ONE),
                      !.y = body.y + (body.vy * dt) \div ONE
                              + (((acc.ay * dt) \div ONE) * dt) \div (2 * ONE)]
          newAcc == calculateAcceleration(g, moved)
      IN  [moved EXCEPT
              !.vx = body.vx + ((acc.ax + newAcc.ax) * dt) \div (2 * ONE),
              !.vy = body.vy + ((acc.ay + newAcc.ay) * dt) \div (2 * ONE)]

\* applyAudioModulation() that scales the time scale it finds instead of
\* setting it
applyAudioModulation_Compound(g, analysis) ==
    [g EXCEPT
        !.audioModulation =
            [ bassMultiplier |-> ONE + Mul(analysis.smoothedBass, 5000),
              midMultiplier |-> ONE + Mul(analysis.mid, 3000),
              trebleMultiplier |-> g.audioModulation.trebleMultiplier,
              beatPulse |-> IF analysis.isBeat THEN analysis.beatIntensity
                            ELSE Mul(g.audioModulation.beatPulse, 9000) ],
        !.timeScale = Mul(g.timeScale, ONE + Mul(analysis.mid, 3000))]

\* applyAudioModulation(analysis)
applyAudioModulation(g, analysis) ==
    [g EXCEPT
        !.audioModulation =
            [ bassMultiplier |-> ONE + Mul(analysis.smoothedBass, 5000),
              midMultiplier |-> ONE + Mul(analysis.mid, 3000),
              trebleMultiplier |-> g.audioModulation.trebleMultiplier,
              beatPulse |-> IF analysis.isBeat THEN analysis.beatIntensity
                            ELSE Mul(g.audioModulation.beatPulse, 9000) ],
        !.timeScale = ONE + Mul(analysis.mid, 3000)]

\* steppedComets() without the ageing
steppedComets_NoAgeing(g, dt) ==
    [i \in 1..Len(g.comets) |-> updateBody(g, g.comets[i], dt)]

\* The comets of update(), each integrated and aged by 0.5, before the dead
\* and the escaped ones are removed
steppedComets(g, dt) ==
    [i \in 1..Len(g.comets) |->
        LET comet == updateBody(g, g.comets[i], dt)
        IN  [comet EXCEPT !.life = comet.life - 1]]

\* The removal test with life < 0 in place of life <= 0
isDeadOrEscaped_Negative(comet) ==
    \/ comet.life < 0
    \/ comet.x < -200 * PX
    \/ comet.x > (Canvas.width + 200) * PX
    \/ comet.y < -200 * PX
    \/ comet.y > (Canvas.height + 200) * PX

\* The test of update() that removes a comet
isDeadOrEscaped(comet) ==
    \/ comet.life <= 0
    \/ comet.x < -200 * PX
    \/ comet.x > (Canvas.width + 200) * PX
    \/ comet.y < -200 * PX
    \/ comet.y > (Canvas.height + 200) * PX

\* update() running its body loop over the sun as well, through an
\* updateBody() that does not return early on isFixed
updatePlanets_SunToo(g, analysis) ==
    LET dt == Mul(g.dt, g.timeScale)
        modulated == IF g.mode = "reactive" /\ analysis.given
                     THEN applyAudioModulation(g, analysis)
                     ELSE g
    IN  [modulated EXCEPT
            !.sun = [updateBody(modulated, [modulated.sun EXCEPT !.isFixed = FALSE], dt)
                        EXCEPT !.isFixed = TRUE],
            !.planets = [i \in 1..Len(modulated.planets) |->
                            updateBody(modulated, modulated.planets[i], dt)]]

\* update(analysis) up to the comet loop: the modulation in reactive mode and
\* the planets' integration; analysis = null is the record noAnalysis
updatePlanets(g, analysis) ==
    LET dt == Mul(g.dt, g.timeScale)
        modulated == IF g.mode = "reactive" /\ analysis.given
                     THEN applyAudioModulation(g, analysis)
                     ELSE g
    IN  [modulated EXCEPT
            !.planets = [i \in 1..Len(modulated.planets) |->
                            updateBody(modulated, modulated.planets[i], dt)]]

\* update(analysis)
update(g, analysis) ==
    LET dt == Mul(g.dt, g.timeScale)
        planetsDone == updatePlanets(g, analysis)
    IN  [planetsDone EXCEPT
            !.comets = SelectSeq(steppedComets(planetsDone, dt),
                                 LAMBDA comet : ~isDeadOrEscaped(comet))]

\* setMode() that also clears the comets, as reset() does
setMode_ClearsComets(g, mode) ==
    IF mode = "scientific"
    THEN [g EXCEPT !.mode = mode,
                   !.comets = << >>,
                   !.audioModulation =
                       [ bassMultiplier |-> ONE, midMultiplier |-> ONE,
                         trebleMultiplier |-> g.audioModulation.trebleMultiplier,
                         beatPulse |-> 0 ],
                   !.timeScale = ONE]
    ELSE [g EXCEPT !.mode = mode, !.comets = << >>]

\* setMode(mode)
setMode(g, mode) ==
    IF mode = "scientific"
    THEN [g EXCEPT !.mode = mode,
                   !.audioModulation =
                       [ bassMultiplier |-> ONE, midMultiplier |-> ONE,
                         trebleMultiplier |-> g.audioModulation.trebleMultiplier,
                         beatPulse |-> 0 ],
                   !.timeScale = ONE]
    ELSE [g EXCEPT !.mode = mode]

\* reset()
reset(g) ==
    createPlanets(
        [g EXCEPT !.comets = << >>,
                  !.planets = [i \in 1..Len(g.planets) |->
                                  [g.planets[i] EXCEPT !.trail = << >>]]])

\* ------------------------------------------------------------------------
\* HarmonographSystem: the parts that own and drive the GravitySystem
\* ------------------------------------------------------------------------
\* linkPlanetsToGravity(): planet i refers to element i of getPlanets()
linkPlanetsToGravity(sys, g) ==
    [sys EXCEPT !.planets =
        [i \in 1..Len(sys.planets) |->
            IF i <= Len(g.planets)
            THEN [sys.planets[i] EXCEPT !.gravityBody = i]
            ELSE sys.planets[i]]]

\* new HarmonographSystem(x, y, w, h, ...): its gravity system, initialized
\* at the center of the w x h buffer with screenScale min(w, h) * 0.4
systemGravity(w, h) ==
    initialize(GravitySystem, (w * PX) \div 2, (h * PX) \div 2, Mul(min(w, h) * PX, 4000))

\* new HarmonographSystem(...): physicsMode and the four Planet objects
HarmonographSystem(g) ==
    linkPlanetsToGravity(
        [ physicsMode |-> "legacy",
          planets |-> [i \in 1..4 |-> [usePhysics |-> FALSE, gravityBody |-> 0]] ],
        g)

\* setPhysicsMode(mode): the system's part
setPhysicsMode(sys, mode) ==
    IF mode \in {"legacy", "reactive"}
    THEN [sys EXCEPT
            !.physicsMode = mode,
            !.planets = [i \in 1..Len(sys.planets) |->
                            [sys.planets[i] EXCEPT !.usePhysics = (mode = "reactive")]]]
    ELSE sys

\* setPhysicsMode(mode): what it does to the gravity system
setPhysicsModeGravity(g, mode) ==
    IF mode = "reactive" THEN setMode(g, "reactive") ELSE g

\* setTimeScale(scale)
setTimeScale(g, scale) == [g EXCEPT !.timeScale = scale]

\* The gravity bodies the system's planets are linked to
linkedBodies(sys, g) ==
    [i \in 1..Len(sys.planets) |-> g.planets[sys.planets[i].gravityBody]]

RECURSIVE spawnComets(_, _, _)
\* n calls of spawnComet(), with the draws rs
spawnComets(g, rs, n) ==
    IF n <= 0 \/ rs = << >> THEN g
    ELSE spawnComets(spawnComet(g, Head(rs)), Tail(rs), n - 1)

\* updateCometsPhysics(trebleEnergy, isHighIntensity, isBeat): a burst of
\* burstCount comets on a beat while below Settings.maxComets, then a top-up
\* to targetComets
updateCometsPhysics(g, maxComets, trebleEnergy, isBeat, burstCount, rs) ==
    LET targetComets ==
            constrain(map(trebleEnergy, 0, 5000, 3 * ONE, maxComets * ONE) \div ONE,
                      2, maxComets)
        burst == IF isBeat /\ Len(g.comets) < maxComets
                 THEN min(burstCount, maxComets - Len(g.comets))
                 ELSE 0
        burstDone == spawnComets(g, rs, burst)
        topUp == max(targetComets - Len(burstDone.comets), 0)
    IN  spawnComets(burstDone, SubSeq(rs, burst + 1, Len(rs)), topUp)

\* ------------------------------------------------------------------------
\* The sketch
\* ------------------------------------------------------------------------
\* cutoffRange = map(Settings.beatSensitivity, 0, 1, 0.5, 0.15) and the three
\* assignments that follow it
applyCutoffs(a, beatSensitivity) ==
    LET cutoffRange == map(beatSensitivity, 0, ONE, 5000, 1500)
    IN  [a EXCEPT !.bassCutoff = cutoffRange,
                  !.midCutoff = Mul(cutoffRange, 8500),
                  !.trebleCutoff = Mul(cutoffRange, 7000)]

\* strength = Settings.pulseStrength / 100 and the three band assignments
applyPulseStrengths(a, percent) ==
    LET strength == (percent * ONE) \div 100
    IN  [a EXCEPT !.bassPulseStrength = strength,
                  !.midPulseStrength = Mul(strength, 6000),
                  !.treblePulseStrength = Mul(strength, 4000)]

\* No call yet but the constructor's initialize()
noCall == [name |-> "initialize", stepped |-> << >>]

\* The sketch's globals and Settings after setup()
sketchGlobals ==
    /\ audioAnalyzer = AudioAnalyzer(HistoryLength)
    /\ Settings = [beatSensitivity |-> 5000, pulseStrength |-> 8, maxComets |-> 25,
                   physicsMode |-> "legacy", timeScale |-> ONE]
    /\ audioStarted = FALSE
    /\ now = 0
    /\ frameCount = 0
    /\ lastFrame = noFrame

\* setup(): audioAnalyzer = new AudioAnalyzer(60) and initializeSystems() with
\* the single full-screen system
setup ==
    /\ sketchGlobals
    /\ gravitySystem = systemGravity(Canvas.width, Canvas.height)
    /\ system = HarmonographSystem(gravitySystem)
    /\ lastCall = noCall

Init ==
    /\ setup
    /\ probe = noProbe
    /\ twin = audioAnalyzer
    /\ sharedBand = "bass"

\* beatSensitivitySlider 'input' listener
beatSensitivitySlider(value) ==
    /\ audioStarted
    /\ Settings' = [Settings EXCEPT !.beatSensitivity = (value * ONE) \div 100]
    /\ audioAnalyzer' = applyCutoffs(audioAnalyzer, Settings'.beatSensitivity)
    /\ UNCHANGED <<audioStarted, now, frameCount, lastFrame, probe, twin, sharedBand>>
    /\ UNCHANGED gravityVars

\* pulseStrengthSlider 'input' listener
pulseStrengthSlider(value) ==
    /\ audioStarted
    /\ Settings' = [Settings EXCEPT !.pulseStrength = value]
    /\ audioAnalyzer' =
          [applyPulseStrengths(audioAnalyzer, value) EXCEPT
              !.pulseStrength = (value * ONE) \div 100]
    /\ UNCHANGED <<audioStarted, now, frameCount, lastFrame, probe, twin, sharedBand>>
    /\ UNCHANGED gravityVars

\* HarmonographSystem.reset(): the gravity system's reset() and
\* linkPlanetsToGravity()
systemReset ==
    /\ gravitySystem' = reset(gravitySystem)
    /\ system' = linkPlanetsToGravity(system, gravitySystem')
    /\ lastCall' = [name |-> "reset", stepped |-> << >>]

\* resetDrawing(): sys.reset() for the system
resetDrawing == systemReset

\* The body shared by startMicrophone() and the loadSound callback of
\* handleFileUpload(): initMicrophone() / initAudioFile() set this.fft.  The
\* two differ in audioMode, which only selects where analyze() reads the
\* volume from (mic.getLevel() or amplitude.getLevel()).
startAudio ==
    /\ ~audioStarted
    /\ audioAnalyzer' =
          applyPulseStrengths(
              applyCutoffs([audioAnalyzer EXCEPT !.fft = TRUE],
                           Settings.beatSensitivity),
              Settings.pulseStrength)
    /\ audioStarted' = TRUE
    /\ UNCHANGED <<Settings, now, frameCount, lastFrame, probe, twin, sharedBand>>
    /\ resetDrawing

startMicrophone == startAudio

handleFileUpload == startAudio

\* draw(): one frame, gap milliseconds after the last one, with the spectrum s
draw(s, gap) ==
    /\ frameCount < MaxFrames
    /\ frameCount' = frameCount + 1
    /\ now' = now + gap
    /\ IF audioStarted
       THEN /\ audioAnalyzer' = analyze(audioAnalyzer, s, now')
            /\ lastFrame' = analyzeLocals(audioAnalyzer, s, now')
       ELSE UNCHANGED <<audioAnalyzer, lastFrame>>
    /\ UNCHANGED <<Settings, audioStarted, probe, twin, sharedBand>>
    /\ UNCHANGED gravityVars

Next ==
    \/ \E value \in BeatSensitivityValues : beatSensitivitySlider(value)
    \/ \E value \in PulseStrengthValues : pulseStrengthSlider(value)
    \/ startMicrophone
    \/ handleFileUpload
    \/ \E s \in Spectra, gap \in FrameGaps : draw(s, gap)

Spec == Init /\ [][Next]_vars

\* ------------------------------------------------------------------------
\* Reading the analyzer by band (getBandBeat, getBandPulseScale and the
\* band-named fields)
\* ------------------------------------------------------------------------
Bands == {"bass", "mid", "treble"}

beatOf(a, band) ==
    CASE band = "bass" -> a.bassBeat
      [] band = "mid" -> a.midBeat
      [] band = "treble" -> a.trebleBeat

intensityOf(a, band) ==
    CASE band = "bass" -> a.bassBeatIntensity
      [] band = "mid" -> a.midBeatIntensity
      [] band = "treble" -> a.trebleBeatIntensity

pulseOf(a, band) ==
    CASE band = "bass" -> a.bassPulseAmount
      [] band = "mid" -> a.midPulseAmount
      [] band = "treble" -> a.treblePulseAmount

pulseStrengthOf(a, band) ==
    CASE band = "bass" -> a.bassPulseStrength
      [] band = "mid" -> a.midPulseStrength
      [] band = "treble" -> a.treblePulseStrength

energyOf(a, band) ==
    CASE band = "bass" -> a.bass
      [] band = "mid" -> a.mid
      [] band = "treble" -> a.treble

historyOf(a, band) ==
    CASE band = "bass" -> a.bassHistory
      [] band = "mid" -> a.midHistory
      [] band = "treble" -> a.trebleHistory

thresholdOf(a, band) ==
    CASE band = "bass" -> a.bassThreshold
      [] band = "mid" -> a.midThreshold
      [] band = "treble" -> a.trebleThreshold

cutoffOf(a, band) ==
    CASE band = "bass" -> a.bassCutoff
      [] band = "mid" -> a.midCutoff
      [] band = "treble" -> a.trebleCutoff

lastBeatTimeOf(a, band) ==
    CASE band = "bass" -> a.bassLastBeatTime
      [] band = "mid" -> a.midLastBeatTime
      [] band = "treble" -> a.trebleLastBeatTime

cooldownOf(band) ==
    CASE band = "bass" -> bassCooldown
      [] band = "mid" -> midCooldown
      [] band = "treble" -> trebleCooldown

decayOf(band) ==
    CASE band = "bass" -> bassDecay
      [] band = "mid" -> midDecay
      [] band = "treble" -> trebleDecay

resultOf(frame, band) ==
    CASE band = "bass" -> frame.bassResult
      [] band = "mid" -> frame.midResult
      [] band = "treble" -> frame.trebleResult

\* A step in which draw() ran analyze()
AnalyzeStep == audioStarted /\ frameCount' = frameCount + 1

\* ------------------------------------------------------------------------
\* detectBeat as a function of its arguments: one band's part of a frame
\* (the push and shift of the band history, then the detectBeat call),
\* applied to arguments drawn from the sets below
\* ------------------------------------------------------------------------
\* The history length the sketch constructs the analyzer with
SketchHistoryLength == 60

ProbeEnergies == {0, 2500, 5000, 7500, ONE}

\* Band histories before the frame: every short window of three levels, and
\* windows of the sketch's length that are level or end in a step
ProbeHistories ==
    [1..HistoryLength -> {0, 5000, ONE}]
    \cup { [i \in 1..SketchHistoryLength |-> e] : e \in {0, 5000, ONE} }
    \cup { [i \in 1..SketchHistoryLength |->
               IF i = SketchHistoryLength THEN e ELSE ONE - e] : e \in {0, ONE} }

ProbeThresholds == {3000, 4000, 9025}

ProbeCutoffs == {3000, 5000}

\* cooldown and decay of the three bands
ProbeBands ==
    { [cooldown |-> cooldownOf(band), decay |-> decayOf(band)] : band \in Bands }

ProbeSensitivities == {ONE, trebleSensitivity, bassSensitivity, 2 * ONE}

\* Milliseconds between the band's last beat and the frame
ProbeElapsed == {100, 150, 200, 201, 1000}

InitProbe ==
    /\ setup
    /\ twin = audioAnalyzer
    /\ sharedBand = "bass"
    /\ \E energy \in ProbeEnergies, history \in ProbeHistories,
          threshold \in ProbeThresholds, cutoff \in ProbeCutoffs,
          band \in ProbeBands, sensitivity \in ProbeSensitivities,
          elapsed \in ProbeElapsed :
          probe = [ energy |-> energy, history |-> history,
                    threshold |-> threshold, lastBeatTime |-> 1000,
                    cooldown |-> band.cooldown, cutoff |-> cutoff,
                    decay |-> band.decay, sensitivity |-> sensitivity,
                    currentTime |-> 1000 + elapsed, pushed |-> history,
                    result |-> noResult, done |-> FALSE ]

\* this.bassHistory.push(this.bass); this.bassHistory.shift(); and then
\* this.detectBeat(this.bass, this.bassHistory, ...)
probeFrame ==
    /\ ~probe.done
    /\ LET pushed == pushShift(probe.history, probe.energy)
       IN  probe' =
             [probe EXCEPT
                !.pushed = pushed,
                !.result = detectBeat(probe.energy, pushed, probe.threshold,
                                      probe.lastBeatTime, probe.cooldown,
                                      probe.cutoff, probe.decay,
                                      probe.sensitivity, probe.currentTime),
                !.done = TRUE]
    /\ UNCHANGED <<audioAnalyzer, Settings, audioStarted, now, frameCount, lastFrame,
                   twin, sharedBand>>
    /\ UNCHANGED gravityVars

NextProbe == probeFrame

SpecDetect == InitProbe /\ [][NextProbe]_vars

\* ------------------------------------------------------------------------
\* Two analyzers side by side: both are started together and hear their
\* frames at the same times; the frames agree on sharedBand and differ in the
\* other two bands
\* ------------------------------------------------------------------------
\* On a band that is not shared the twin hears the level TwinShift steps
\* further round the levels 0 -> 0.5 -> 1.0 -> 0: another energy than in s
TwinShift == 1

shifted(energy) == ((energy \div 5000 + TwinShift) % 3) * 5000

twinSpectrum(s) ==
    LET b == IF sharedBand = "bass" THEN s.bass ELSE shifted(s.bass)
        m == IF sharedBand = "mid" THEN s.mid ELSE shifted(s.mid)
        t == IF sharedBand = "treble" THEN s.treble ELSE shifted(s.treble)
    IN  [bass |-> b, mid |-> m, treble |-> t,
         highMid |-> (m + t) \div 2, volume |-> (b + m + t) \div 6]

InitPair ==
    /\ setup
    /\ probe = noProbe
    /\ twin = audioAnalyzer
    /\ sharedBand \in Bands

pairStartAudio ==
    /\ ~audioStarted
    /\ audioAnalyzer' =
          applyPulseStrengths(
              applyCutoffs([audioAnalyzer EXCEPT !.fft = TRUE],
                           Settings.beatSensitivity),
              Settings.pulseStrength)
    /\ twin' =
          applyPulseStrengths(
              applyCutoffs([twin EXCEPT !.fft = TRUE], Settings.beatSensitivity),
              Settings.pulseStrength)
    /\ audioStarted' = TRUE
    /\ UNCHANGED <<Settings, now, frameCount, lastFrame, probe, sharedBand>>
    /\ resetDrawing

pairDraw(s, gap) ==
    /\ audioStarted
    /\ frameCount < MaxFrames
    /\ frameCount' = frameCount + 1
    /\ now' = now + gap
    /\ audioAnalyzer' = analyze(audioAnalyzer, s, now')
    /\ twin' = analyze(twin, twinSpectrum(s), now')
    /\ lastFrame' = analyzeLocals(audioAnalyzer, s, now')
    /\ UNCHANGED <<Settings, audioStarted, probe, sharedBand>>
    /\ UNCHANGED gravityVars

NextPair ==
    \/ pairStartAudio
    \/ \E s \in Spectra, gap \in FrameGaps : pairDraw(s, gap)

SpecPair == InitPair /\ [][NextPair]_vars

\* ------------------------------------------------------------------------
\* The GravitySystem called directly: update(), spawnComet(), setMode() and
\* reset() in any order on the system that setup() constructed
\* ------------------------------------------------------------------------
\* How many times reset() is called in a run
MaxResets == 1

\* How many comets direct spawnComet() calls add up to
MaxSpawned == 1

\* getAnalysis() results handed to update(); given = FALSE is update(null)
noAnalysis ==
    [given |-> FALSE, smoothedBass |-> 0, mid |-> 0, treble |-> 0, isBeat |-> FALSE,
     beatIntensity |-> 0]

silence == [noAnalysis EXCEPT !.given = TRUE]

GravityAnalyses ==
    { silence,
      [given |-> TRUE, smoothedBass |-> 5000, mid |-> 5000, treble |-> 500,
       isBeat |-> TRUE, beatIntensity |-> ONE] }

\* The mode names in use: GravitySystem's two and HarmonographSystem's other
Modes == {"scientific", "reactive", "legacy"}

\* Draws of spawnComet(): from the top edge heading straight for the center,
\* and from the left edge heading PI / 4 off it
SpawnDraws ==
    { [edge |-> 0, along |-> 2500, offset |-> 0, speed |-> 80, mass |-> 1,
       maxTrailLength |-> 30],
      [edge |-> 3, along |-> 5000, offset |-> 1, speed |-> 30, mass |-> 5,
       maxTrailLength |-> 59] }

\* The locals of update(): the comets after integration and ageing, before
\* the removal
updateLocals(g, analysis) ==
    steppedComets(updatePlanets(g, analysis), Mul(g.dt, g.timeScale))

callUpdate(analysis) ==
    /\ frameCount < MaxFrames
    /\ frameCount' = frameCount + 1
    /\ gravitySystem' = update(gravitySystem, analysis)
    /\ lastCall' = [name |-> "update", stepped |-> updateLocals(gravitySystem, analysis)]
    /\ UNCHANGED <<audioAnalyzer, Settings, audioStarted, now, lastFrame, probe, twin,
                   sharedBand, system>>

callSpawnComet(r) ==
    /\ Len(gravitySystem.comets) < MaxSpawned
    /\ gravitySystem' = spawnComet(gravitySystem, r)
    /\ lastCall' = [name |-> "spawnComet", stepped |-> << >>]
    /\ UNCHANGED <<audioAnalyzer, Settings, audioStarted, now, frameCount, lastFrame,
                   probe, twin, sharedBand, system>>

callSetMode(mode) ==
    /\ gravitySystem' = setMode(gravitySystem, mode)
    /\ lastCall' = [name |-> "setMode", stepped |-> << >>]
    /\ UNCHANGED <<audioAnalyzer, Settings, audioStarted, now, frameCount, lastFrame,
                   probe, twin, sharedBand, system>>

callReset ==
    /\ Len(gravitySystem.planets) < 4 * (MaxResets + 1)
    /\ gravitySystem' = reset(gravitySystem)
    /\ lastCall' = [name |-> "reset", stepped |-> << >>]
    /\ UNCHANGED <<audioAnalyzer, Settings, audioStarted, now, frameCount, lastFrame,
                   probe, twin, sharedBand, system>>

NextGravity ==
    \/ \E analysis \in GravityAnalyses \cup {noAnalysis} : callUpdate(analysis)
    \/ \E r \in SpawnDraws : callSpawnComet(r)
    \/ \E mode \in Modes : callSetMode(mode)
    \/ callReset

SpecGravity == Init /\ [][NextGravity]_vars

\* ------------------------------------------------------------------------
\* The sketch driving the system: frames of draw() once audio has started,
\* the physics-mode toggle, the time-scale and comet-count sliders and the
\* reset of the drawing
\* ------------------------------------------------------------------------
\* Values of the time-scale slider (percent)
TimeScaleValues == {200}

\* Values of the comet-count slider
CometSliderValues == {1}

\* burstCount = floor(random(2, 4))
BurstCounts == {2, 3}

\* The draws of the spawnComet() calls of one frame, in order
SpawnDrawSeqs ==
    { [i \in 1..6 |-> IF i % 2 = 1 THEN r.first ELSE r.second] :
        r \in [first : SpawnDraws, second : SpawnDraws] }

\* draw() from sys.update(audioAnalyzer) on, with analysis the result of
\* getAnalysis(): HarmonographSystem.update() updates the gravity system in
\* reactive mode, then updateComets() spawns through updateCometsPhysics()
drawSystems(analysis, burstCount, rs) ==
    /\ audioStarted
    /\ frameCount < MaxFrames
    /\ frameCount' = frameCount + 1
    /\ LET updated == IF system.physicsMode = "reactive"
                      THEN update(gravitySystem, analysis)
                      ELSE gravitySystem
       IN  /\ gravitySystem' =
                 IF Settings.physicsMode = "reactive"
                 THEN updateCometsPhysics(updated, Settings.maxComets, analysis.treble,
                                          analysis.isBeat, burstCount, rs)
                 ELSE updated
           /\ lastCall' =
                 IF system.physicsMode = "reactive"
                 THEN [name |-> "update",
                       stepped |-> updateLocals(gravitySystem, analysis)]
                 ELSE [name |-> "draw", stepped |-> << >>]
    /\ UNCHANGED <<audioAnalyzer, Settings, audioStarted, now, lastFrame, probe, twin,
                   sharedBand, system>>

\* togglePhysicsMode(): applySettingToWindows('physicsMode', ...) calls
\* setPhysicsMode() on the system
togglePhysicsMode ==
    LET mode == IF Settings.physicsMode = "legacy" THEN "reactive" ELSE "legacy"
    IN  /\ Settings' = [Settings EXCEPT !.physicsMode = mode]
        /\ system' = setPhysicsMode(system, mode)
        /\ gravitySystem' = setPhysicsModeGravity(gravitySystem, mode)
        /\ lastCall' = [name |-> "setPhysicsMode", stepped |-> << >>]
        /\ UNCHANGED <<audioAnalyzer, audioStarted, now, frameCount, lastFrame, probe,
                       twin, sharedBand>>

\* timeScaleSlider 'input' listener
timeScaleSlider(value) ==
    /\ Settings' = [Settings EXCEPT !.timeScale = (value * ONE) \div 100]
    /\ gravitySystem' = setTimeScale(gravitySystem, Settings'.timeScale)
    /\ lastCall' = [name |-> "setTimeScale", stepped |-> << >>]
    /\ UNCHANGED <<audioAnalyzer, audioStarted, now, frameCount, lastFrame, probe,
                   twin, sharedBand, system>>

\* cometSlider 'input' listener
cometSlider(value) ==
    /\ Settings' = [Settings EXCEPT !.maxComets = value]
    /\ UNCHANGED <<audioAnalyzer, audioStarted, now, frameCount, lastFrame, probe,
                   twin, sharedBand, gravityVars>>

\* resetDrawingBtn 'click' listener
resetDrawingBtn ==
    /\ Len(gravitySystem.planets) < 4 * (MaxResets + 1)
    /\ resetDrawing
    /\ UNCHANGED <<audioAnalyzer, Settings, audioStarted, now, frameCount, lastFrame,
                   probe, twin, sharedBand>>

NextSystems ==
    \/ startMicrophone
    \/ \E analysis \in GravityAnalyses, burstCount \in BurstCounts, rs \in SpawnDrawSeqs :
          drawSystems(analysis, burstCount, rs)
    \/ togglePhysicsMode
    \/ \E value \in TimeScaleValues : timeScaleSlider(value)
    \/ \E value \in CometSliderValues : cometSlider(value)
    \/ resetDrawingBtn

SpecSystems == Init /\ [][NextSystems]_vars

\* ------------------------------------------------------------------------
\* The sketch with no audio input: every frame carries all-zero energies
\* ------------------------------------------------------------------------
NextQuiet ==
    \/ startMicrophone
    \/ \E burstCount \in BurstCounts, rs \in SpawnDrawSeqs :
          drawSystems(silence, burstCount, rs)
    \/ togglePhysicsMode
    \/ \E value \in TimeScaleValues : timeScaleSlider(value)

SpecQuiet == Init /\ [][NextQuiet]_vars

\* ------------------------------------------------------------------------
\* update() on comets in mid-flight: young and about to die, far inside the
\* canvas and at the edge of the region 200 pixels around it
\* ------------------------------------------------------------------------
cometAt(x, y, vx, vy, life) ==
    [ CelestialBody([ name |-> "Comet", mass |-> 1, x |-> x, y |-> y, vx |-> vx,
                      vy |-> vy, isFixed |-> FALSE, isComet |-> TRUE,
                      maxTrailLength |-> 30, life |-> 2 * 255 ])
      EXCEPT !.life = life ]

CometProbes ==
    { cometAt(1000, -500, 29, 74, 2 * 255),
      cometAt(3000, 1000, -500, 900, 1),
      cometAt(3000, 1000, -500, 900, 2),
      cometAt((Canvas.width + 200) * PX - 10, 2000, 8000, 0, 300),
      cometAt((Canvas.width + 200) * PX, 2000, 0, 0, 300),
      cometAt(1000, -200 * PX + 5, 0, -5000, 300) }

InitComets ==
    /\ sketchGlobals
    /\ system = HarmonographSystem(systemGravity(Canvas.width, Canvas.height))
    /\ lastCall = noCall
    /\ probe = noProbe
    /\ twin = audioAnalyzer
    /\ sharedBand = "bass"
    /\ \E first \in CometProbes, second \in CometProbes, mode \in {"scientific", "reactive"} :
          gravitySystem =
              [setMode(systemGravity(Canvas.width, Canvas.height), mode)
                  EXCEPT !.comets = <<first, second>>]

NextComets == \E analysis \in GravityAnalyses \cup {noAnalysis} : callUpdate(analysis)

SpecComets == InitComets /\ [][NextComets]_vars

\* ------------------------------------------------------------------------
\* The life of a comet: one spawnComet() and then update() frame after frame,
\* past the 255 / 0.5 frames its life lasts
\* ------------------------------------------------------------------------
\* life: 255 of spawnComet() over the 0.5 that update() takes off per frame
LifeFrames == 2 * 255

\* The analysis of the frame: a beat every fourth frame, a quieter frame
\* after it and silence in between
analysisOfFrame(frame) ==
    CASE frame % 4 = 0 ->
           [given |-> TRUE, smoothedBass |-> 5000, mid |-> 5000, treble |-> 500,
            isBeat |-> TRUE, beatIntensity |-> 7500]
      [] frame % 4 = 1 ->
           [given |-> TRUE, smoothedBass |-> 3500, mid |-> 2000, treble |-> 0,
            isBeat |-> FALSE, beatIntensity |-> 0]
      [] OTHER -> silence

\* Draws of spawnComet() for the life of a comet: the two of SpawnDraws and
\* one on an orbit that stays inside the region for the whole life
LifeDraws ==
    SpawnDraws \cup
    { [edge |-> 0, along |-> 2500, offset |-> 1, speed |-> 30, mass |-> 1,
       maxTrailLength |-> 30] }

InitLife ==
    /\ sketchGlobals
    /\ system = HarmonographSystem(systemGravity(Canvas.width, Canvas.height))
    /\ lastCall = [name |-> "spawnComet", stepped |-> << >>]
    /\ probe = noProbe
    /\ twin = audioAnalyzer
    /\ sharedBand = "bass"
    /\ \E r \in LifeDraws, mode \in {"scientific", "reactive"} :
          gravitySystem =
              spawnComet(setMode(systemGravity(Canvas.width, Canvas.height), mode), r)

lifeUpdate ==
    /\ frameCount < LifeFrames + MaxFrames
    /\ frameCount' = frameCount + 1
    /\ gravitySystem' = update(gravitySystem, analysisOfFrame(frameCount))
    /\ lastCall' = [name |-> "update",
                    stepped |-> updateLocals(gravitySystem, analysisOfFrame(frameCount))]
    /\ UNCHANGED <<audioAnalyzer, Settings, audioStarted, now, lastFrame, probe, twin,
                   sharedBand, system>>

NextLife == lifeUpdate

SpecLife == InitLife /\ [][NextLife]_vars

\* ------------------------------------------------------------------------
\* Frames with missing samples.  fft.getEnergy(band) / 255 is NaN when the
\* sample is missing or NaN.  A NaN operand makes the result of +, -, *, /
\* and sqrt NaN and makes every comparison false, so the model keeps the set
\* of the fields that are NaN (probe.nan) next to the numbers; the number kept
\* for a field of that set has no meaning.  The beat decision of the frame is
\* drawn; a frame with a NaN bass reading carries no beat, energy > threshold
\* being false.
\* ------------------------------------------------------------------------
\* this.bassLerp
bassLerp == 3000

\* this.midLerp
midLerp == 2500

\* Readings of a band: a level, or NaN
Readings ==
    { [nan |-> FALSE, val |-> 0], [nan |-> FALSE, val |-> 5000],
      [nan |-> TRUE, val |-> 0] }

noNaN == [nan |-> {}, smoothedBass |-> 0, smoothedMid |-> 0]

\* The fields that are NaN after analyze() has smoothed the readings and, if
\* called, GravitySystem.update() has run on the result
nanAfterFrame(nan, g, bass, mid, isBeat, updated) ==
    LET smoothed == nan \cup (IF bass.nan THEN {"smoothedBass"} ELSE {})
                        \cup (IF mid.nan THEN {"smoothedMid"} ELSE {})
        modulated == updated /\ g.mode = "reactive"
        \* applyAudioModulation(): 1.0 + smoothedBass * 0.5, 1.0 + mid * 0.3,
        \* beatPulse = beatIntensity or beatPulse * 0.9
        modulation ==
            IF modulated
            THEN (IF "smoothedBass" \in smoothed THEN {"bassMultiplier"} ELSE {})
                 \cup (IF mid.nan THEN {"midMultiplier", "timeScale"} ELSE {})
                 \cup (IF ~isBeat /\ "beatPulse" \in nan THEN {"beatPulse"} ELSE {})
            ELSE nan \cap {"bassMultiplier", "midMultiplier", "timeScale", "beatPulse"}
        \* dt = this.dt * this.timeScale, read before the modulation; the sun's
        \* GM scaled by bassMultiplier in reactive mode; beatPulse > 0 is false
        \* for NaN
        bodies ==
            IF updated /\ ( \/ "timeScale" \in nan
                            \/ g.mode = "reactive" /\ "bassMultiplier" \in modulation )
            THEN {"planets"}
            ELSE nan \cap {"planets"}
    IN  (smoothed \cap {"smoothedBass", "smoothedMid"}) \cup modulation \cup bodies

InitNaN ==
    /\ setup
    /\ probe = noNaN
    /\ twin = audioAnalyzer
    /\ sharedBand = "bass"

\* draw() with the readings bass and mid: analyze() smooths them, and
\* sys.update(audioAnalyzer) hands getAnalysis() to the gravity system in
\* reactive mode
nanFrame(bass, mid, isBeat) ==
    /\ audioStarted
    /\ frameCount < MaxFrames
    /\ bass.nan => ~isBeat
    /\ frameCount' = frameCount + 1
    /\ LET updated == system.physicsMode = "reactive"
           smoothedBass == lerp(probe.smoothedBass, bass.val, bassLerp)
           smoothedMid == lerp(probe.smoothedMid, mid.val, midLerp)
           analysis == [given |-> TRUE, smoothedBass |-> smoothedBass, mid |-> mid.val,
                        treble |-> 0, isBeat |-> isBeat, beatIntensity |-> ONE]
       IN  /\ probe' = [nan |-> nanAfterFrame(probe.nan, gravitySystem, bass, mid,
                                              isBeat, updated),
                        smoothedBass |-> smoothedBass,
                        smoothedMid |-> smoothedMid]
           /\ gravitySystem' = IF updated THEN update(gravitySystem, analysis)
                               ELSE gravitySystem
           /\ lastCall' = IF updated
                          THEN [name |-> "update",
                                stepped |-> updateLocals(gravitySystem, analysis)]
                          ELSE [name |-> "draw", stepped |-> << >>]
    /\ UNCHANGED <<audioAnalyzer, Settings, audioStarted, now, lastFrame, twin,
                   sharedBand, system>>

NextNaN ==
    \/ startMicrophone
    \/ togglePhysicsMode
    \/ \E bass \in Readings, mid \in Readings, isBeat \in BOOLEAN :
          nanFrame(bass, mid, isBeat)

SpecNaN == InitNaN /\ [][NextNaN]_vars

\* ------------------------------------------------------------------------
\* The pulse of one band after a beat: the beat sets it, and the "decay
\* pulses" part of analyze() runs in the frame of the beat and in every frame
\* after it; no further beat of the band
\* ------------------------------------------------------------------------
\* The band strengths of the constructor and of the pulse-strength control at
\* its maximum, 20%
BeatStrengths == {300, 500, 800, 1200, 2000}

\* Beat intensities, in [0.5, 1.0]
BeatIntensities == {5000, 7500, ONE}

\* this.bassPulseDecay, this.midPulseDecay, this.treblePulseDecay
pulseDecayOf(band) ==
    CASE band = "bass" -> bassPulseDecay
      [] band = "mid" -> midPulseDecay
      [] band = "treble" -> treblePulseDecay

InitPulse ==
    /\ setup
    /\ twin = audioAnalyzer
    /\ sharedBand = "bass"
    /\ \E strength \in BeatStrengths, intensity \in BeatIntensities, band \in Bands :
          probe = [ amount |-> ONE + Mul(strength, intensity),
                    previous |-> ONE + Mul(strength, intensity),
                    decay |-> pulseDecayOf(band) ]

\* The decay of the band's pulse in one frame
pulseFrame ==
    /\ probe' = [probe EXCEPT !.amount = decayPulse(probe.amount, probe.decay),
                              !.previous = probe.amount]
    /\ UNCHANGED <<audioAnalyzer, Settings, audioStarted, now, frameCount, lastFrame,
                   twin, sharedBand>>
    /\ UNCHANGED gravityVars

NextPulse == pulseFrame

\* analyze() runs in every draw(), and p5 keeps calling draw()
SpecPulse == InitPulse /\ [][NextPulse]_vars /\ WF_vars(NextPulse)

\* ------------------------------------------------------------------------
\* calculateAcceleration() and gravitationalAcceleration() as functions of the
\* body's position: a body placed on and around an attractor (the sun sits at
\* the system center), in either mode, with and without audio modulation
\* ------------------------------------------------------------------------
\* Offsets of the body from the attractor, per axis, in tenths of a pixel
AccelOffsets == {-3000, -100, -10, 0, 10, 100, 3000}

\* audioModulation as the constructor leaves it and as a loud beat leaves it
AccelModulations ==
    { GravitySystem.audioModulation,
      [bassMultiplier |-> 12500, midMultiplier |-> 11500, trebleMultiplier |-> ONE,
       beatPulse |-> ONE] }

\* The division of the beat pulse term, dx / dist and dy / dist with
\* dist = sqrt(dx * dx + dy * dy): 0 / 0 = NaN for a body at the center
beatPulseIsNaN(g, body) ==
    LET dx == g.centerX - body.x
        dy == g.centerY - body.y
    IN  g.mode = "reactive" /\ g.audioModulation.beatPulse > 0
            /\ sqrt(dx * dx + dy * dy) = 0

\* The divisions of gravitationalAcceleration(), GM / distSq and dx / dist:
\* by zero only if distSq is 0
gravitationalAccelerationIsNaN(g, body, attractor) ==
    LET dx == attractor.x - body.x
        dy == attractor.y - body.y
    IN  dx * dx + dy * dy + g.softeningLength * g.softeningLength = 0

\* Whether calculateAcceleration(body) returns NaN in ax or ay: NaN comes out
\* of a division of zero by zero and stays through every sum it enters
calculateAccelerationIsNaN(g, body) ==
    \/ gravitationalAccelerationIsNaN(g, body, g.sun)
    \/ body.isComet /\ \E i \in 1..Len(g.planets) :
                          gravitationalAccelerationIsNaN(g, body, g.planets[i])
    \/ beatPulseIsNaN(g, body)

noAccel == [name |-> "none", ax |-> 0, ay |-> 0, nan |-> FALSE]

InitAccel ==
    /\ sketchGlobals
    /\ system = HarmonographSystem(systemGravity(Canvas.width, Canvas.height))
    /\ lastCall = noCall
    /\ twin = audioAnalyzer
    /\ sharedBand = "bass"
    /\ \E mode \in {"scientific", "reactive"}, modulation \in AccelModulations :
          gravitySystem =
              [systemGravity(Canvas.width, Canvas.height) EXCEPT
                  !.mode = mode, !.audioModulation = modulation]
    /\ \E k \in 0..Len(planetConfigs), ox \in AccelOffsets, oy \in AccelOffsets :
          LET attractor == IF k = 0 THEN gravitySystem.sun ELSE gravitySystem.planets[k]
          IN  probe = [ body |-> cometAt(attractor.x + ox, attractor.y + oy, 0, 0, 2 * 255),
                        attractor |-> attractor,
                        result |-> noAccel ]

\* calculateAcceleration(probe.body)
callCalculateAcceleration ==
    /\ probe.result = noAccel
    /\ LET acc == calculateAcceleration(gravitySystem, probe.body)
       IN  probe' = [probe EXCEPT !.result =
                        [ name |-> "calculateAcceleration", ax |-> acc.ax, ay |-> acc.ay,
                          nan |-> calculateAccelerationIsNaN(gravitySystem, probe.body) ]]
    /\ UNCHANGED <<audioAnalyzer, Settings, audioStarted, now, frameCount, lastFrame,
                   twin, sharedBand>>
    /\ UNCHANGED gravityVars

\* gravitationalAcceleration(probe.body, probe.attractor)
callGravitationalAcceleration ==
    /\ probe.result = noAccel
    /\ LET acc == gravitationalAcceleration(gravitySystem, probe.body, probe.attractor)
       IN  probe' = [probe EXCEPT !.result =
                        [ name |-> "gravitationalAcceleration", ax |-> acc.ax,
                          ay |-> acc.ay,
                          nan |-> gravitationalAccelerationIsNaN(gravitySystem, probe.body,
                                                                 probe.attractor) ]]
    /\ UNCHANGED <<audioAnalyzer, Settings, audioStarted, now, frameCount, lastFrame,
                   twin, sharedBand>>
    /\ UNCHANGED gravityVars

NextAccel ==
    \/ callCalculateAcceleration
    \/ callGravitationalAcceleration

SpecAccel == InitAccel /\ [][NextAccel]_vars

\* ------------------------------------------------------------------------
\* The whole frame: draw() runs analyze(), takes getAnalysis(), lets the
\* system update its gravity system from the analyzer, and updates the comets
\* ------------------------------------------------------------------------
\* The readings of a frame: silence, one band alone, and all bands together;
\* highMid and volume follow from the bands as in Spectra
FrameSpectra ==
    { [bass |-> r[1], mid |-> r[2], treble |-> r[3],
       highMid |-> (r[2] + r[3]) \div 2, volume |-> (r[1] + r[2] + r[3]) \div 6] :
      r \in { <<0, 0, 0>>, <<ONE, 0, 0>>, <<0, ONE, 0>>, <<0, 0, 4000>>,
              <<ONE, ONE, 4000>> } }

\* Milliseconds between two frames: longer than every cooldown
FrameGapValues == {250}

\* The draws of the spawnComet() calls of one frame, enough for
\* Settings.maxComets comets
FrameDraws ==
    [i \in 1..25 |->
        IF i % 2 = 1
        THEN [edge |-> 0, along |-> 2500, offset |-> 0, speed |-> 80, mass |-> 1,
              maxTrailLength |-> 30]
        ELSE [edge |-> 3, along |-> 5000, offset |-> 1, speed |-> 30, mass |-> 5,
              maxTrailLength |-> 59]]

\* getAnalysis(): the fields of the snapshot that the gravity system and
\* updateComets() read; smoothedBass is kept next to the analyzer
getAnalysis(a, smoothedBass) ==
    [ given |-> TRUE, smoothedBass |-> smoothedBass, mid |-> a.mid,
      treble |-> a.treble, isBeat |-> a.isBeat, beatIntensity |-> a.beatIntensity ]

noCalls == [smoothedBass |-> 0, spectrum |-> CHOOSE s \in FrameSpectra : s.volume = 0,
            calls |-> << >>]

InitFrame ==
    /\ setup
    /\ probe = noCalls
    /\ twin = audioAnalyzer
    /\ sharedBand = "bass"

\* draw() that lets the systems update before the analyzer has analyzed the
\* frame
drawFrame_UpdateFirst(s, gap, burstCount) ==
    /\ audioStarted
    /\ frameCount < MaxFrames
    /\ frameCount' = frameCount + 1
    /\ now' = now + gap
    /\ audioAnalyzer' = analyze(audioAnalyzer, s, now')
    /\ lastFrame' = analyzeLocals(audioAnalyzer, s, now')
    /\ LET smoothedBass == lerp(probe.smoothedBass, s.bass, bassLerp)
           stale == getAnalysis(audioAnalyzer, probe.smoothedBass)
           analysis == getAnalysis(audioAnalyzer', smoothedBass)
           reactive == system.physicsMode = "reactive"
           updated == IF reactive THEN update(gravitySystem, stale) ELSE gravitySystem
       IN  /\ gravitySystem' =
                 IF Settings.physicsMode = "reactive"
                 THEN updateCometsPhysics(updated, Settings.maxComets, analysis.treble,
                                          analysis.isBeat, burstCount, FrameDraws)
                 ELSE updated
           /\ lastCall' =
                 IF reactive
                 THEN [name |-> "update", stepped |-> updateLocals(gravitySystem, stale)]
                 ELSE [name |-> "draw", stepped |-> << >>]
           /\ probe' =
                 [ smoothedBass |-> smoothedBass, spectrum |-> s,
                   calls |-> <<"sys.update">>
                             \o (IF reactive THEN <<"gravitySystem.update">> ELSE << >>)
                             \o <<"analyze", "getAnalysis", "updateComets">> ]
    /\ UNCHANGED <<Settings, audioStarted, twin, sharedBand, system>>

\* draw() once audio has started, with the spectrum s: analyze() and
\* getAnalysis(), then sys.update(audioAnalyzer) for the system, which in
\* reactive mode calls gravitySystem.update(analyzer.getAnalysis()), then
\* updateComets(); probe.calls lists the calls in the order made
drawFrame(s, gap, burstCount) ==
    /\ audioStarted
    /\ frameCount < MaxFrames
    /\ frameCount' = frameCount + 1
    /\ now' = now + gap
    /\ audioAnalyzer' = analyze(audioAnalyzer, s, now')
    /\ lastFrame' = analyzeLocals(audioAnalyzer, s, now')
    /\ LET smoothedBass == lerp(probe.smoothedBass, s.bass, bassLerp)
           analysis == getAnalysis(audioAnalyzer', smoothedBass)
           reactive == system.physicsMode = "reactive"
           updated == IF reactive THEN update(gravitySystem, analysis) ELSE gravitySystem
       IN  /\ gravitySystem' =
                 IF Settings.physicsMode = "reactive"
                 THEN updateCometsPhysics(updated, Settings.maxComets, analysis.treble,
                                          analysis.isBeat, burstCount, FrameDraws)
                 ELSE updated
           /\ lastCall' =
                 IF reactive
                 THEN [name |-> "update", stepped |-> updateLocals(gravitySystem, analysis)]
                 ELSE [name |-> "draw", stepped |-> << >>]
           /\ probe' =
                 [ smoothedBass |-> smoothedBass, spectrum |-> s,
                   calls |-> <<"analyze", "getAnalysis", "sys.update">>
                             \o (IF reactive THEN <<"gravitySystem.update">> ELSE << >>)
                             \o <<"updateComets">> ]
    /\ UNCHANGED <<Settings, audioStarted, twin, sharedBand, system>>

NextFrame ==
    \/ startMicrophone
    \/ togglePhysicsMode
    \/ \E s \in FrameSpectra, gap \in FrameGapValues, burstCount \in BurstCounts :
          drawFrame(s, gap, burstCount)

SpecFrame == InitFrame /\ [][NextFrame]_vars

\* ------------------------------------------------------------------------
\* An analyzer constructed with a history of one sample, new AudioAnalyzer(1),
\* in place of the sketch's: its band histories hold the sample just pushed
\* and nothing else
\* ------------------------------------------------------------------------
ShortHistoryLengths == {1}

InitShort ==
    /\ \E historyLength \in ShortHistoryLengths :
          audioAnalyzer = AudioAnalyzer(historyLength)
    /\ Settings = [beatSensitivity |-> 5000, pulseStrength |-> 8, maxComets |-> 25,
                   physicsMode |-> "legacy", timeScale |-> ONE]
    /\ audioStarted = FALSE
    /\ now = 0
    /\ frameCount = 0
    /\ lastFrame = noFrame
    /\ gravitySystem = systemGravity(Canvas.width, Canvas.height)
    /\ system = HarmonographSystem(gravitySystem)
    /\ lastCall = noCall
    /\ probe = noProbe
    /\ twin = audioAnalyzer
    /\ sharedBand = "bass"

NextShort ==
    \/ startMicrophone
    \/ \E s \in Spectra, gap \in FrameGaps : draw(s, gap)

SpecShort == InitShort /\ [][NextShort]_vars

\* ------------------------------------------------------------------------
\* The time scale: setTimeScale(), setMode() and update() called in any
\* order.  probe keeps the scale of the last setTimeScale() call and whether
\* a setMode() call has been made since.
\* ------------------------------------------------------------------------
\* Scales handed to setTimeScale(): 0.5 and 2.0
ScaleValues == {5000, 20000}

noScale == [scale |-> ONE, inEffect |-> FALSE]

InitScale ==
    /\ setup
    /\ probe = noScale
    /\ twin = audioAnalyzer
    /\ sharedBand = "bass"

\* HarmonographSystem.setTimeScale(scale)
callSetTimeScale(scale) ==
    /\ gravitySystem' = setTimeScale(gravitySystem, scale)
    /\ lastCall' = [name |-> "setTimeScale", stepped |-> << >>]
    /\ probe' = [scale |-> scale, inEffect |-> TRUE]
    /\ UNCHANGED <<audioAnalyzer, Settings, audioStarted, now, frameCount, lastFrame,
                   twin, sharedBand, system>>

\* GravitySystem.setMode(mode)
switchMode(mode) ==
    /\ gravitySystem' = setMode(gravitySystem, mode)
    /\ lastCall' = [name |-> "setMode", stepped |-> << >>]
    /\ probe' = [probe EXCEPT !.inEffect = FALSE]
    /\ UNCHANGED <<audioAnalyzer, Settings, audioStarted, now, frameCount, lastFrame,
                   twin, sharedBand, system>>

NextScale ==
    \/ \E scale \in ScaleValues : callSetTimeScale(scale)
    \/ \E mode \in {"scientific", "reactive"} : switchMode(mode)
    \/ \E analysis \in GravityAnalyses \cup {noAnalysis} : callUpdate(analysis)

SpecScale == InitScale /\ [][NextScale]_vars

\* ------------------------------------------------------------------------
\* Claims
\* ------------------------------------------------------------------------

\* C1: in no frame does a band report a beat while currentTime - lastBeatTime
\* is at most the band's cooldown; a beat stamps lastBeatTime with the frame's
\* time and no other frame changes it, so two successive beats of one band
\* are more than the cooldown apart.
C1_NoBeatWithinCooldown ==
    [][AnalyzeStep =>
        \A band \in Bands :
            /\ beatOf(audioAnalyzer', band) =>
                  /\ now' - lastBeatTimeOf(audioAnalyzer, band) > cooldownOf(band)
                  /\ lastBeatTimeOf(audioAnalyzer', band) = now'
            /\ ~beatOf(audioAnalyzer', band) =>
                  lastBeatTimeOf(audioAnalyzer', band)
                      = lastBeatTimeOf(audioAnalyzer, band)]_vars

\* A frame, within the cooldown of an earlier beat of the band, whose energy
\* rose above both thresholds, and that reported no beat
C1_Witness ==
    \E band \in Bands :
        /\ ~beatOf(audioAnalyzer, band)
        /\ lastBeatTimeOf(audioAnalyzer, band) > 0
        /\ now - lastBeatTimeOf(audioAnalyzer, band) <= cooldownOf(band)
        /\ isRising(energyOf(audioAnalyzer, band), historyOf(audioAnalyzer, band))
        /\ energyOf(audioAnalyzer, band) > resultOf(lastFrame, band).dynamicThreshold
        /\ Mul(energyOf(audioAnalyzer, band), decayOf(band))
              > thresholdOf(audioAnalyzer, band)

\* C3 (as claimed): in every reachable state each band's decaying threshold
\* is at least the band's cutoff.
C3_ThresholdAtLeastCutoff ==
    \A band \in Bands :
        thresholdOf(audioAnalyzer, band) >= cutoffOf(audioAnalyzer, band)

\* C4 (as claimed): in a frame in which a band reports no beat, the band's
\* decaying threshold does not increase.
C4_ThresholdNonIncreasing ==
    [][AnalyzeStep =>
        \A band \in Bands :
            ~beatOf(audioAnalyzer', band) =>
                thresholdOf(audioAnalyzer', band) <= thresholdOf(audioAnalyzer, band)]_vars

\* C7: whenever a band reports a beat, its intensity lies in [0.5, 1.0].
C7_IntensityInRange ==
    \A band \in Bands :
        beatOf(audioAnalyzer, band) =>
            /\ intensityOf(audioAnalyzer, band) >= 5000
            /\ intensityOf(audioAnalyzer, band) <= ONE

\* A beat whose intensity is strictly inside the interval
C7_Witness ==
    \E band \in Bands :
        /\ beatOf(audioAnalyzer, band)
        /\ intensityOf(audioAnalyzer, band) > 5000
        /\ intensityOf(audioAnalyzer, band) < ONE

\* C9: every band's pulse scale and the combined pulse scale are at least 1.0,
\* whatever strength the pulse-strength control has set.
C9_PulseAtLeastOne ==
    /\ \A band \in Bands : pulseOf(audioAnalyzer, band) >= ONE
    /\ audioAnalyzer.pulseAmount >= ONE

\* A pulse raised by a beat after the control set the strength to 20%
C9_Witness ==
    /\ Settings.pulseStrength = 20
    /\ \E band \in Bands :
          /\ beatOf(audioAnalyzer, band)
          /\ pulseOf(audioAnalyzer, band) > ONE
    /\ audioAnalyzer.pulseAmount > ONE

\* C10 (as claimed): isTense is true exactly when the volume stands out, or a
\* band fired, or treble > 0.2, or highMid > 0.5.
C10_TenseExactly ==
    audioAnalyzer.isTense <=>
        \/ /\ audioAnalyzer.volume > Mul(audioAnalyzer.avgVolume, 12000)
           /\ audioAnalyzer.volume > 200
        \/ \E band \in Bands : beatOf(audioAnalyzer, band)
        \/ audioAnalyzer.treble > 2000
        \/ audioAnalyzer.highMid > 5000

\* C2: in a frame a band reports a beat if and only if its energy is above the
\* decaying threshold, above the dynamic threshold, above the sample of the
\* frame before (a rising edge), and the time since the last beat is more
\* than the cooldown.
C2_BeatIffFourConditions ==
    probe.done =>
        (probe.result.isBeat <=>
            /\ probe.energy > probe.threshold
            /\ probe.energy > probe.result.dynamicThreshold
            /\ probe.energy > probe.history[Len(probe.history)]
            /\ probe.currentTime - probe.lastBeatTime > probe.cooldown)

\* A frame that the dynamic threshold alone kept from being a beat
C2_Witness ==
    /\ probe.done
    /\ ~probe.result.isBeat
    /\ probe.energy > probe.threshold
    /\ probe.energy <= probe.result.dynamicThreshold
    /\ probe.energy > probe.history[Len(probe.history)]
    /\ probe.currentTime - probe.lastBeatTime > probe.cooldown

\* C5: from a band history of 60 zeros, with the threshold at its cutoff 0.3
\* and the cooldown elapsed, a frame of energy 1.0 reports a beat whose
\* intensity lies in [0.5, 1.0].
C5_SilenceToFullScale ==
    ( /\ probe.done
      /\ probe.history = zeros(SketchHistoryLength)
      /\ probe.threshold = 3000
      /\ probe.cutoff = 3000
      /\ probe.currentTime - probe.lastBeatTime > probe.cooldown
      /\ probe.energy = ONE )
    => /\ probe.result.isBeat
       /\ probe.result.intensity >= 5000
       /\ probe.result.intensity <= ONE

\* The frame of C5, applied
C5_Witness ==
    /\ probe.done
    /\ probe.history = zeros(SketchHistoryLength)
    /\ probe.threshold = 3000
    /\ probe.cutoff = 3000
    /\ probe.cooldown = bassCooldown
    /\ probe.currentTime - probe.lastBeatTime > probe.cooldown
    /\ probe.energy = ONE
    /\ probe.result.isBeat

\* C6: the dynamic threshold detectBeat computes is at most 0.98, for every
\* history and every sensitivity.
C6_DynamicThresholdCapped ==
    probe.done => probe.result.dynamicThreshold <= 9800

\* A frame whose average energy times the adaptive multiplier is above 0.98
C6_Witness ==
    /\ probe.done
    /\ Mul(probe.result.avgEnergy,
           map(probe.result.avgEnergy, 0, ONE, probe.sensitivity,
               Mul(probe.sensitivity, 8000))) > 9800
    /\ probe.result.dynamicThreshold = 9800

\* C8: two runs of frames that agree on one band's energies and on the times,
\* and differ in the other two bands, agree at every frame on that band's
\* beat, intensity, threshold, last beat time and pulse amount.
C8_BandsIndependent ==
    /\ beatOf(twin, sharedBand) = beatOf(audioAnalyzer, sharedBand)
    /\ intensityOf(twin, sharedBand) = intensityOf(audioAnalyzer, sharedBand)
    /\ thresholdOf(twin, sharedBand) = thresholdOf(audioAnalyzer, sharedBand)
    /\ lastBeatTimeOf(twin, sharedBand) = lastBeatTimeOf(audioAnalyzer, sharedBand)
    /\ pulseOf(twin, sharedBand) = pulseOf(audioAnalyzer, sharedBand)

\* The shared band fired in a frame in which the two runs disagree on each of
\* the other two bands' beats
C8_Witness ==
    /\ beatOf(audioAnalyzer, sharedBand)
    /\ \A band \in Bands \ {sharedBand} :
          beatOf(twin, band) # beatOf(audioAnalyzer, band)

\* The position and velocity of each body of a sequence
kinematics(bodies) ==
    [i \in 1..Len(bodies) |->
        [x |-> bodies[i].x, y |-> bodies[i].y, vx |-> bodies[i].vx, vy |-> bodies[i].vy]]

\* The planets right after initialize() with the sketch's configuration
initialPlanets == systemGravity(Canvas.width, Canvas.height).planets

\* C11: after initialize(), the sun stays at the center with zero velocity
\* and an empty trail, whatever update(), spawnComet(), setMode() and reset()
\* calls are made.
C11_SunNeverMoves ==
    /\ gravitySystem.sun.isFixed
    /\ gravitySystem.sun.x = gravitySystem.centerX
    /\ gravitySystem.sun.y = gravitySystem.centerY
    /\ gravitySystem.sun.vx = 0
    /\ gravitySystem.sun.vy = 0
    /\ gravitySystem.sun.trail = << >>

\* An update() in reactive mode under a beat pulse that moved the planets and
\* a comet
C11_Witness ==
    /\ lastCall.name = "update"
    /\ gravitySystem.mode = "reactive"
    /\ gravitySystem.audioModulation.beatPulse > 0
    /\ gravitySystem.planets[1].trail # << >>
    /\ gravitySystem.comets # << >>
    /\ gravitySystem.comets[1].trail # << >>

\* C12 (as claimed): after reset() the comet collection is empty and the
\* planets of getPlanets(), and the gravity bodies the system's planets are
\* linked to, have the positions and velocities they had after initialize().
C12_ResetRestoresPlanets ==
    lastCall.name = "reset" =>
        /\ gravitySystem.comets = << >>
        /\ kinematics(gravitySystem.planets) = kinematics(initialPlanets)
        /\ kinematics(linkedBodies(system, gravitySystem)) = kinematics(initialPlanets)

\* C13 (as claimed): a GravitySystem owns 4 planets in every reachable state.
C13_FourPlanets == Len(gravitySystem.planets) = 4

\* C14 (as claimed): a reset() that follows a reset() leaves the gravity
\* system as it was.
C14_ResetIdempotent ==
    [][lastCall.name = "reset" /\ lastCall'.name = "reset"
          => gravitySystem' = gravitySystem]_vars

\* C15 (as claimed): right after the system's physics mode goes from
\* reactive to legacy, bassMultiplier is 1, timeScale is 1 and beatPulse is 0.
C15_LegacyIsNeutral ==
    [][system.physicsMode = "reactive" /\ system'.physicsMode = "legacy"
          => /\ gravitySystem'.audioModulation.bassMultiplier = ONE
             /\ gravitySystem'.timeScale = ONE
             /\ gravitySystem'.audioModulation.beatPulse = 0]_vars

\* C16 (as claimed): with all-zero audio in every frame, after a switch from
\* reactive back to legacy bassMultiplier is 1, timeScale is 1 and beatPulse
\* is 0, whatever setTimeScale() set before and however many frames ran.
C16_QuietRoundTripIsNeutral ==
    [][Settings.physicsMode = "reactive" /\ Settings'.physicsMode = "legacy"
          => /\ gravitySystem'.audioModulation.bassMultiplier = ONE
             /\ gravitySystem'.timeScale = ONE
             /\ gravitySystem'.audioModulation.beatPulse = 0]_vars

\* C17: setMode('reactive') leaves the sun, the planets and the comets, with
\* their positions and velocities, as they were.
C17_ReactiveKeepsBodies ==
    [][lastCall'.name = "setMode" /\ gravitySystem'.mode = "reactive"
          => /\ gravitySystem'.sun = gravitySystem.sun
             /\ gravitySystem'.planets = gravitySystem.planets
             /\ gravitySystem'.comets = gravitySystem.comets]_vars

\* The mode was switched to reactive on a system with planets in mid-orbit
\* and a comet in flight
C17_Witness ==
    /\ lastCall.name = "setMode"
    /\ gravitySystem.mode = "reactive"
    /\ gravitySystem.planets[1].trail # << >>
    /\ gravitySystem.comets # << >>

\* C18: an update() in a mode other than reactive leaves bassMultiplier,
\* midMultiplier, beatPulse and timeScale as they were, and moves the bodies
\* as it would with the modulation neutral: no bass scaling of the sun's GM
\* and no beat-pulse term enter the accelerations.
C18_NoCouplingOutsideReactive ==
    [][lastCall'.name = "update" /\ gravitySystem.mode # "reactive"
          => LET neutral ==
                     [gravitySystem EXCEPT
                         !.audioModulation.bassMultiplier = ONE,
                         !.audioModulation.beatPulse = 0]
             IN  /\ gravitySystem'.audioModulation = gravitySystem.audioModulation
                 /\ gravitySystem'.timeScale = gravitySystem.timeScale
                 /\ gravitySystem'.planets = update(neutral, noAnalysis).planets
                 /\ gravitySystem'.comets = update(neutral, noAnalysis).comets]_vars

\* An update() with an analysis, in legacy mode, on a system whose
\* bassMultiplier and beatPulse were left raised by reactive frames
C18_Witness ==
    /\ lastCall.name = "update"
    /\ gravitySystem.mode = "legacy"
    /\ gravitySystem.audioModulation.bassMultiplier > ONE
    /\ gravitySystem.audioModulation.beatPulse > 0
    /\ gravitySystem.comets # << >>
    /\ gravitySystem.comets[1].trail # << >>

\* C19 (as claimed): the gravity system never owns more comets than
\* Settings.maxComets.
C19_CometsAtMostMax == Len(gravitySystem.comets) <= Settings.maxComets

\* Alive and inside the region 200 pixels around the canvas
aliveInside(comet) ==
    /\ comet.life > 0
    /\ -200 * PX <= comet.x
    /\ comet.x <= (Canvas.width + 200) * PX
    /\ -200 * PX <= comet.y
    /\ comet.y <= (Canvas.height + 200) * PX

C21_CometGoneAfterLife ==
    /\ \A i \in 1..Len(gravitySystem.comets) :
          gravitySystem.comets[i].life = LifeFrames - frameCount
    /\ frameCount >= LifeFrames => gravitySystem.comets = << >>

\* The 510th update() removed a comet that was still inside the region
C21_Witness ==
    /\ lastCall.name = "update"
    /\ frameCount = LifeFrames
    /\ gravitySystem.comets = << >>
    /\ Len(lastCall.stepped) = 1
    /\ lastCall.stepped[1].life = 0
    /\ aliveInside([lastCall.stepped[1] EXCEPT !.life = 1])

\* C22 (as claimed): right after a switch of the physics mode or a reset of
\* the drawing, the gravity system owns no comet.
C22_NoCometsAfterSwitchOrReset ==
    lastCall.name \in {"setPhysicsMode", "reset"} => gravitySystem.comets = << >>

\* C23 (as claimed): whatever samples are missing, no smoothed band value, no
\* gravity modulation value and no body position or velocity is NaN.
C23_NothingIsNaN == probe.nan = {}

\* 2 PI in units of 1/ONE
TwoPi == 2 * 31416

\* The orbital period 2 PI sqrt(a^3 / GM) of the planet of a configuration,
\* in update() frames of this.dt at timeScale 1, rounded down
orbitalPeriodFrames(g, config) ==
    LET a == Mul(config.semiMajorAxis, g.screenScale)
        GM == g.G * g.sun.mass
        \* sqrt(a^3 / GM) in units of 1/ONE s
        tau == sqrt((a * a * a) \div (GM \div (10 * ONE)))
    IN  ((TwoPi * tau) \div ONE) \div g.dt

\* rPerihelion = a (1 - e) of createOrbitalBody()
perihelionOf(g, config) ==
    Mul(Mul(config.semiMajorAxis, g.screenScale), ONE - config.eccentricity)

distanceFromSun(g, body) ==
    sqrt((body.x - g.sun.x) * (body.x - g.sun.x) + (body.y - g.sun.y) * (body.y - g.sun.y))

\* The planet of configuration i is within 2% of its perihelion distance
nearPerihelion(g, i) ==
    100 * abs(distanceFromSun(g, g.planets[i]) - perihelionOf(g, planetConfigs[i]))
        <= 2 * perihelionOf(g, planetConfigs[i])

\* C24 (as claimed): with no audio modulation, after the update() frames of
\* one orbital period 2 PI sqrt(a^3 / GM) a planet is within 2% of its
\* perihelion distance a (1 - e) from the sun.
C24_OrbitCloses ==
    \A i \in 1..Len(planetConfigs) :
        ( /\ gravitySystem.mode = "scientific"
          /\ frameCount = orbitalPeriodFrames(gravitySystem, planetConfigs[i]) )
        => nearPerihelion(gravitySystem, i)

\* C25 (as claimed): the average energy and the dynamic threshold of a frame
\* are those of the band history as the previous frames left it, before the
\* frame's own sample is pushed.
C25_AverageOfPreviousSamples ==
    probe.done =>
        /\ probe.result.avgEnergy = avgEnergy(probe.history)
        /\ probe.result.dynamicThreshold
              = dynamicThreshold(probe.history, probe.sensitivity)

\* C26: a frame whose band energy is at most the band's energy of the frame
\* before reports no beat for the band.
C26_NoBeatUnlessRising ==
    [][AnalyzeStep =>
        \A band \in Bands :
            energyOf(audioAnalyzer', band) <= energyOf(audioAnalyzer, band)
                => ~beatOf(audioAnalyzer', band)]_vars

\* A frame that repeated the energy of the frame before, above both
\* thresholds and past the cooldown, and reported no beat
C26_Witness ==
    \E band \in Bands :
        /\ frameCount >= 2
        /\ ~beatOf(audioAnalyzer, band)
        /\ energyOf(audioAnalyzer, band)
              = historyOf(audioAnalyzer, band)[Len(historyOf(audioAnalyzer, band)) - 1]
        /\ energyOf(audioAnalyzer, band) > resultOf(lastFrame, band).dynamicThreshold
        /\ Mul(energyOf(audioAnalyzer, band), decayOf(band))
              > thresholdOf(audioAnalyzer, band)
        /\ now - lastBeatTimeOf(audioAnalyzer, band) > cooldownOf(band)

\* The four histories of the analyzer and the samples analyze() pushes on them
Histories == {"volume", "bass", "mid", "treble"}

historyNamed(a, name) ==
    IF name = "volume" THEN a.volumeHistory ELSE historyOf(a, name)

sampleNamed(a, name) ==
    IF name = "volume" THEN a.volume ELSE energyOf(a, name)

\* C27: the volume history and the three band histories have length
\* historyLength after construction and after every frame, and a frame drops
\* the oldest sample, keeps the others in order and puts its own sample last.
C27_HistoriesAreWindows ==
    /\ [](\A name \in Histories :
            Len(historyNamed(audioAnalyzer, name)) = audioAnalyzer.historyLength)
    /\ [][AnalyzeStep =>
            \A name \in Histories :
                historyNamed(audioAnalyzer', name)
                    = Tail(historyNamed(audioAnalyzer, name))
                        \o <<sampleNamed(audioAnalyzer', name)>>]_vars

\* Two frames of different levels filled the bass history, in order
C27_Witness ==
    /\ frameCount >= 2
    /\ audioAnalyzer.bassHistory[Len(audioAnalyzer.bassHistory)] = audioAnalyzer.bass
    /\ audioAnalyzer.bassHistory[Len(audioAnalyzer.bassHistory) - 1] # audioAnalyzer.bass
    /\ audioAnalyzer.bassHistory[Len(audioAnalyzer.bassHistory) - 1] > 0
    /\ audioAnalyzer.volumeHistory[Len(audioAnalyzer.volumeHistory)] = audioAnalyzer.volume
    /\ audioAnalyzer.volumeHistory[Len(audioAnalyzer.volumeHistory) - 1] # audioAnalyzer.volume

\* C28: after a beat set a band's pulse, with no further beat the pulse gets
\* strictly closer to 1.0 in every frame in which it is above 1.0, never goes
\* below 1.0, and from some frame on is exactly 1.0.
C28_PulseSettlesAtOne ==
    /\ [][/\ probe'.amount >= ONE
          /\ probe'.amount <= probe.amount
          /\ probe.amount > ONE => probe'.amount < probe.amount]_vars
    /\ <>[](probe.amount = ONE)

\* The frame that snapped the pulse to exactly 1.0 from within 0.001 above it
C28_Witness ==
    /\ probe.amount = ONE
    /\ probe.previous > ONE
    /\ lerp(probe.previous, ONE, ONE - probe.decay) > ONE

\* The gravity system with planet i as its only planet and no comet
planetAlone(g, i) == [g EXCEPT !.comets = << >>, !.planets = <<g.planets[i]>>]

\* The pull on a comet: the sun's, every planet's, and in reactive mode under
\* a beat pulse the pulse term
cometPull(g, comet) ==
    LET sunAcc == gravitationalAcceleration(g, comet, g.sun)
        planetsAcc == sumAcc([j \in 1..Len(g.planets) |->
                                 gravitationalAcceleration(g, comet, g.planets[j])])
        pulseAcc == IF g.mode = "reactive" /\ g.audioModulation.beatPulse > 0
                    THEN beatPulseAcceleration(g, comet)
                    ELSE [ax |-> 0, ay |-> 0]
    IN  [ax |-> sunAcc.ax + planetsAcc.ax + pulseAcc.ax,
         ay |-> sunAcc.ay + planetsAcc.ay + pulseAcc.ay]

\* C29: in an update() every planet moves as it would in a system holding
\* the sun, that planet alone and no comet, under the same dt and audio
\* modulation; and every comet is displaced by the pull of the sun and of
\* every planet.
C29_PlanetsIgnoreOthers ==
    [][lastCall'.name = "update" =>
        LET dt == Mul(gravitySystem.dt, gravitySystem.timeScale)
            \* the system when the comet loop starts
            planetsDone == [gravitySystem' EXCEPT !.comets = gravitySystem.comets]
        IN  /\ \A i \in 1..Len(gravitySystem.planets) :
                  gravitySystem'.planets[i] =
                      updateBody([planetAlone(gravitySystem, i) EXCEPT
                                     !.audioModulation = gravitySystem'.audioModulation],
                                 gravitySystem.planets[i], dt)
            /\ \A k \in 1..Len(gravitySystem.comets) :
                  LET comet == gravitySystem.comets[k]
                      acc == cometPull(planetsDone, comet)
                  IN  /\ lastCall'.stepped[k].x
                            = comet.x + (comet.vx * dt) \div ONE
                                + (((acc.ax * dt) \div ONE) * dt) \div (2 * ONE)
                      /\ lastCall'.stepped[k].y
                            = comet.y + (comet.vy * dt) \div ONE
                                + (((acc.ay * dt) \div ONE) * dt) \div (2 * ONE)]_vars

\* An update() of a system of eight planets with a comet in flight that the
\* planets pull on
C29_Witness ==
    /\ lastCall.name = "update"
    /\ Len(gravitySystem.planets) > 4
    /\ Len(lastCall.stepped) = 1
    /\ gravitySystem.comets # << >>
    /\ sumAcc([j \in 1..Len(gravitySystem.planets) |->
                 gravitationalAcceleration(gravitySystem, gravitySystem.comets[1],
                                           gravitySystem.planets[j])])
          # [ax |-> 0, ay |-> 0]

\* C30: in reactive mode, after update(analysis) bassMultiplier is
\* 1 + smoothedBass * 0.5, timeScale is 1 + mid * 0.3, and beatPulse is the
\* beat's intensity on a beat and 0.9 times its value before otherwise.
C30_ReactiveCoupling ==
    [][lastCall'.name = "update" /\ gravitySystem.mode = "reactive" =>
        LET analysis == analysisOfFrame(frameCount)
        IN  /\ gravitySystem'.audioModulation.bassMultiplier
                  = ONE + (analysis.smoothedBass * 5) \div 10
            /\ gravitySystem'.timeScale = ONE + (analysis.mid * 3) \div 10
            /\ gravitySystem'.audioModulation.beatPulse
                  = IF analysis.isBeat THEN analysis.beatIntensity
                    ELSE (gravitySystem.audioModulation.beatPulse * 9) \div 10]_vars

\* The third frame after a beat of intensity 0.75: the pulse has decayed
\* three times
C30_Witness ==
    /\ lastCall.name = "update"
    /\ gravitySystem.mode = "reactive"
    /\ frameCount > 4
    /\ gravitySystem.audioModulation.beatPulse = Mul(Mul(Mul(7500, 9000), 9000), 9000)
    /\ gravitySystem.audioModulation.bassMultiplier = ONE
    /\ gravitySystem.timeScale = ONE

\* The component of the beat-pulse term along the vector from the center to
\* the body, times the length of that vector
pulseAlongRadius(g, body) ==
    LET acc == beatPulseAcceleration(g, body)
    IN  acc.ax * (body.x - g.centerX) + acc.ay * (body.y - g.centerY)

\* C31: in reactive mode with a positive beat pulse, the beat-pulse term of
\* every body away from the center points outward: its component along the
\* vector from the center to the body is positive.
C31_PulsePointsOutward ==
    gravitySystem.mode = "reactive" /\ gravitySystem.audioModulation.beatPulse > 0 =>
        \A i \in 1..Len(gravitySystem.planets) :
            LET body == gravitySystem.planets[i]
            IN  (body.x # gravitySystem.centerX \/ body.y # gravitySystem.centerY) =>
                    pulseAlongRadius(gravitySystem, body) > 0

\* C32: calculateAcceleration() divides by zero for no body position, the
\* system center under a positive beat pulse in reactive mode included: the
\* acceleration it returns is never NaN.
C32_NoDivisionByZero ==
    probe.result.name = "calculateAcceleration" => ~probe.result.nan

\* G * mass(attractor) * multiplier / softeningLength^2, the multiplier being
\* bassMultiplier for the sun in reactive mode and 1 otherwise
accelerationBound(g, attractor) ==
    LET GM == IF g.mode = "reactive" /\ attractor.name = "Sun"
              THEN ((g.G * attractor.mass) \div ONE) * g.audioModulation.bassMultiplier
              ELSE g.G * attractor.mass
    IN  (GM * PX) \div ((g.softeningLength * g.softeningLength) \div (PX * PX))

\* C33: with softeningLength > 0, gravitationalAcceleration() divides by zero
\* for no pair of positions, the acceleration it returns is no larger than
\* G * mass * multiplier / softeningLength^2, and for a body on the attractor
\* it is zero in both components.  (The magnitudes are compared in hundreds,
\* to stay within the integers.)
C33_SoftenedAccelerationBounded ==
    probe.result.name = "gravitationalAcceleration" /\ gravitySystem.softeningLength > 0 =>
        LET bound == accelerationBound(gravitySystem, probe.attractor)
            ax == abs(probe.result.ax)
            ay == abs(probe.result.ay)
        IN  /\ ~probe.result.nan
            /\ ax <= bound
            /\ ay <= bound
            /\ (ax \div 100) * (ax \div 100) + (ay \div 100) * (ay \div 100)
                  <= (bound \div 100 + 1) * (bound \div 100 + 1)
            /\ (probe.body.x = probe.attractor.x /\ probe.body.y = probe.attractor.y) =>
                  (probe.result.ax = 0 /\ probe.result.ay = 0)

\* gravitationalAcceleration() called for a body on the sun, in reactive mode
\* with the sun's pull scaled up
C33_Witness ==
    /\ probe.result.name = "gravitationalAcceleration"
    /\ probe.attractor.name = "Sun"
    /\ probe.body.x = probe.attractor.x
    /\ probe.body.y = probe.attractor.y
    /\ gravitySystem.mode = "reactive"
    /\ gravitySystem.audioModulation.bassMultiplier > ONE
    /\ probe.result.ax = 0
    /\ probe.result.ay = 0

\* The reference velocity-Verlet step of a body under the acceleration field
\* of g: pos' = pos + v dt + a(pos) dt^2 / 2, v' = v + (a(pos) + a(pos')) dt / 2
verletStep(g, body, dt) ==
    LET a0 == calculateAcceleration(g, body)
        x1 == body.x + (body.vx * dt) \div ONE + (((a0.ax * dt) \div ONE) * dt) \div (2 * ONE)
        y1 == body.y + (body.vy * dt) \div ONE + (((a0.ay * dt) \div ONE) * dt) \div (2 * ONE)
        a1 == calculateAcceleration(g, [body EXCEPT !.x = x1, !.y = y1])
    IN  [ x |-> x1, y |-> y1,
          vx |-> body.vx + ((a0.ax + a1.ax) * dt) \div (2 * ONE),
          vy |-> body.vy + ((a0.ay + a1.ay) * dt) \div (2 * ONE) ]

\* C34: updateBody() advances every non-fixed body by one velocity-Verlet
\* step: the position with the old velocity and the acceleration at the old
\* position, the velocity with the mean of that acceleration and the one at
\* the new position.  (The planets are integrated before the comets, so the
\* field a comet moves in is the one of the planets after the step.)
C34_VelocityVerlet ==
    [][lastCall'.name = "update" =>
        LET dt == Mul(gravitySystem.dt, gravitySystem.timeScale)
            step(body) == verletStep(gravitySystem', body, dt)
            moved(before, after) ==
                /\ ~before.isFixed
                /\ [x |-> after.x, y |-> after.y, vx |-> after.vx, vy |-> after.vy]
                      = step(before)
        IN  /\ \A i \in 1..Len(gravitySystem.planets) :
                  moved(gravitySystem.planets[i], gravitySystem'.planets[i])
            /\ \A k \in 1..Len(gravitySystem.comets) :
                  moved(gravitySystem.comets[k], lastCall'.stepped[k])]_vars

\* An update() in reactive mode under a beat pulse that has integrated the
\* four planets and a comet, the pull on planet A being different at its new
\* position
C34_Witness ==
    /\ lastCall.name = "update"
    /\ gravitySystem.mode = "reactive"
    /\ gravitySystem.audioModulation.beatPulse > 0
    /\ Len(lastCall.stepped) = 1
    /\ gravitySystem.planets[1].trail # << >>
    /\ LET planet == gravitySystem.planets[1]
           last == planet.trail[Len(planet.trail)]
       IN  calculateAcceleration(gravitySystem, planet)
              # calculateAcceleration(gravitySystem,
                                      [planet EXCEPT !.x = last.x, !.y = last.y])

\* C36: in a reactive-mode update(analysis) the modulation of that analysis
\* is applied before the bodies move: every planet is integrated with the
\* timestep dt * (1 + analysis.mid * 0.3) of the same frame.
C36_TimestepOfSameFrame ==
    [][lastCall'.name = "update" /\ gravitySystem.mode = "reactive" =>
        LET analysis == analysisOfFrame(frameCount)
            dt == Mul(gravitySystem.dt, ONE + Mul(analysis.mid, 3000))
        IN  \A i \in 1..Len(gravitySystem.planets) :
                LET after == gravitySystem'.planets[i]
                IN  [x |-> after.x, y |-> after.y, vx |-> after.vx, vy |-> after.vy]
                        = verletStep(gravitySystem', gravitySystem.planets[i], dt)]_vars

\* How many times a call appears in the calls of a frame, and where first
callCount(calls, name) == Cardinality({i \in DOMAIN calls : calls[i] = name})

callPosition(calls, name) == CHOOSE i \in DOMAIN calls : calls[i] = name

\* C35: in a frame with audio started in which the gravity system is
\* updated, analyze() has run before the update, the analyzer has changed by
\* exactly one analyze() of the frame's spectrum, and the gravity system has
\* been updated once, from the snapshot of the analyzer as analyze() left it.
C35_AnalyzerBeforeGravity ==
    [][audioStarted /\ frameCount' = frameCount + 1 /\ lastCall'.name = "update" =>
        LET calls == probe'.calls
            analysis == getAnalysis(audioAnalyzer', probe'.smoothedBass)
            once == update(gravitySystem, analysis)
        IN  /\ callCount(calls, "analyze") = 1
            /\ callCount(calls, "gravitySystem.update") = 1
            /\ callPosition(calls, "analyze") < callPosition(calls, "gravitySystem.update")
            /\ audioAnalyzer' = analyze(audioAnalyzer, probe'.spectrum, now')
            /\ lastCall'.stepped = updateLocals(gravitySystem, analysis)
            /\ gravitySystem'.planets = once.planets
            /\ gravitySystem'.audioModulation = once.audioModulation
            /\ gravitySystem'.timeScale = once.timeScale]_vars

\* A reactive frame whose bass beat, detected by analyze() in that frame, has
\* set the beat pulse of the gravity system in the same frame
C35_Witness ==
    /\ audioStarted
    /\ lastCall.name = "update"
    /\ callCount(probe.calls, "gravitySystem.update") = 1
    /\ audioAnalyzer.bassBeat
    /\ audioAnalyzer.bassBeatIntensity > 0
    /\ gravitySystem.audioModulation.beatPulse = audioAnalyzer.bassBeatIntensity
    /\ gravitySystem.audioModulation.bassMultiplier > ONE

newest(trail, n) ==
    IF Len(trail) <= n THEN trail ELSE SubSeq(trail, Len(trail) - n + 1, Len(trail))

\* C37: after every updateBody() the body's trail holds at most
\* maxTrailLength positions (100 for a planet, the comet's own 30..59 for a
\* comet): the positions it held before followed by the position the body
\* had when the call started, less the oldest ones beyond maxTrailLength.
C37_TrailBounded ==
    [][lastCall'.name = "update" =>
        LET kept(before, after) ==
                /\ Len(after.trail) <= after.maxTrailLength
                /\ after.trail =
                      newest(Append(before.trail, [x |-> before.x, y |-> before.y]),
                             before.maxTrailLength)
        IN  /\ \A i \in 1..Len(gravitySystem.planets) :
                  /\ gravitySystem.planets[i].maxTrailLength = 100
                  /\ kept(gravitySystem.planets[i], gravitySystem'.planets[i])
            /\ \A k \in 1..Len(gravitySystem.comets) :
                  /\ gravitySystem.comets[k].maxTrailLength \in 30..59
                  /\ kept(gravitySystem.comets[k], lastCall'.stepped[k])]_vars

\* An update() past the hundredth frame: the planets' trails are full, their
\* first positions are gone, and the comet's trail is at its own length
C37_Witness ==
    /\ lastCall.name = "update"
    /\ frameCount > 100
    /\ Len(gravitySystem.planets[1].trail) = 100
    /\ gravitySystem.planets[1].trail[1]
          # [x |-> initialPlanets[1].x, y |-> initialPlanets[1].y]
    /\ Len(lastCall.stepped) = 1
    /\ Len(lastCall.stepped[1].trail) = lastCall.stepped[1].maxTrailLength

\* C38: an analyzer whose band histories are shorter than 2 samples is
\* rejected with an error, at construction or in its first analyze(): no
\* analyze() call on such an analyzer runs to its end.
C38_ShortHistoryRejected ==
    audioAnalyzer.historyLength < 2 => lastFrame = noFrame

\* C39: after setTimeScale(s), and until setTimeScale() or setMode() is
\* called again, every update() integrates the planets with the timestep
\* 0.016 * s, in reactive mode as in scientific mode.
C39_TimeScaleStays ==
    [][lastCall'.name = "update" /\ probe.inEffect =>
        LET dt == Mul(gravitySystem.dt, probe.scale)
        IN  \A i \in 1..Len(gravitySystem.planets) :
                LET after == gravitySystem'.planets[i]
                IN  [x |-> after.x, y |-> after.y, vx |-> after.vx, vy |-> after.vy]
                        = verletStep(gravitySystem', gravitySystem.planets[i], dt)]_vars

====
